---- MODULE Spec2Model ----
(***************************************************************************)
(* Round lifecycle of the Tap Miner game server                            *)
(* (src/tap-miner/server.js, lines 55-193 and 299-325).                    *)
(*                                                                         *)
(* The server keeps one gameState object, a set of WebSocket clients and   *)
(* a chain of setTimeout timers.  Node runs every handler to completion,   *)
(* so each handler is one atomic action.                                   *)
(***************************************************************************)
EXTENDS Integers, Sequences, FiniteSets, TLC

\* ---------------------------------------------------------------- bounds
MaxHashes   == 1    \* taps accepted per round in Spec and FairCycle
MaxTaps     == 3    \* taps accepted per round in SpecTaps
MaxTime     == 1    \* Date.now() ranges over 0..MaxTime
MaxRoundLen == 4    \* length of the rounds drawn by InitRound
MaxDigestLen == 6   \* length of the strings drawn by InitDigest
MaxOrderTaps == 1   \* taps accepted per round in SpecOrder
MaxFieldTaps == 1   \* taps accepted per round in SpecFields
MaxMsgTaps   == 1   \* taps accepted per round in SpecMsg
MaxAppendTaps == 2  \* taps accepted per round in SpecAppend
MaxTwinTaps  == 2   \* taps accepted per round in SpecTwin
MaxFeedTaps  == 3   \* taps accepted per round in SpecFeed
MaxClientTaps == 1  \* taps per round, of the page and at the server, in SpecClient
MaxInbox     == 2   \* messages waiting at the page in SpecClient

\* ------------------------------------------------------- program constants
duration        == 120000
pageDuration    == 120000   \* the duration the page uses on gameStart

\* ----------------------------------------------------------- value sets
Conns     == {"c1", "c2"}           \* WebSocket objects
PlayerIds == {"p1", "p2"}           \* values of crypto.randomBytes(8).toString('hex')
Names     == {"Alice"}              \* data.playerName
JoinNames == {"Alice", "Bob"}       \* data.playerName in SpecConn
TwoTapCounts == {1, 2}              \* data.tapCount in SpecAppend and SpecTwin
Client    == "c1"                   \* the connection of SpecMsg
TapCounts == {1}                    \* data.tapCount
Undefined == "undefined"            \* JavaScript undefined (Map.get of a missing key)
NoId      == "none"                 \* no connection handler closure exists for the slot
NullTime  == -1                     \* gameState.startTime before the first round (null)
NoWinner  == [null |-> TRUE]        \* the winner field of gameEnd when no hash was seen
Times     == 0..MaxTime

\* Hex digests (strings are modelled as sequences of characters).
HexChars  == {"0", "3", "a", "b"}
Digests   == { <<"0","0","0","0","0","a">>,     \* five leading zeros
               <<"0","0","0","0","0","b">>,     \* five leading zeros
               <<"0","0","a","b","0","0">>,     \* two
               <<"0","0","0","3","a","b">> }    \* three
TapDigests == { <<"0","0","0","0","0","a">>,    \* the digests the tap handler draws
                <<"0","0","a","b","0","0">> }

FeedDigests == { <<"a","0","0","0","0","0">>,   \* the digests of SpecFeed: no leading zero
                 <<"b","3","0","0","a","b">>,   \* no leading zero
                 <<"0","0","a","b","0","0">> }  \* two

VARIABLES
    isActive,     \* gameState.isActive
    players,      \* gameState.players : Map playerId -> playerName
    hashes,       \* gameState.hashes  : array of submissions
    startTime,    \* gameState.startTime
    clients,      \* wss.clients with each connection's playerId closure variable
    endTimers,    \* pending setTimeout(() => endGame(), duration)
    startTimers,  \* pending setTimeout(() => startNewGame(), 10000)
    listening,    \* the server.listen callback has run
    now,          \* the value Date.now() returns
    sent,         \* messages written by the last handler, in order: [to, msg]
    accepted,     \* history: submissions of the current round in insertion order
    tapsWhileActive, \* history: tap messages processed while the round was active
    newHashSent,  \* history: newHash broadcasts since the last gameStart
    lastRoundEvent, \* history: type of the last gameStart / gameEnd broadcast
    lastOp,       \* history: the handler that ran last, and its connection
    digestIn,     \* argument of the countLeadingZeros call under test
    zerosOut,     \* its result (-1 before the call)
    link,         \* per connection: ws.isAlive, the state of its receiver and socket
    seen,         \* history: the last gameStart / gameEnd each connection received
    isShuttingDown, \* serverState.isShuttingDown
    joinedSince,  \* history: the connections that sent join since they were opened
    misses,       \* history: per connection, the sweeps since its last pong or its connect
    sha,          \* the digest function: [playerId, timestamp, tapCount] -> hex string
    twin,         \* gameState.hashes of a second run fed other tapCount values
    lastMsg,      \* history: the type of the message the last 'message' handler was
                  \* given, and whether it lacked playerName / tapCount
    health,       \* the game block of the last reply of GET /health
    feed,         \* history: the newHash messages broadcast since the last gameStart
    inbox,        \* per connection: messages delivered to the client, not yet handled
    page          \* per connection: the TapMinerGame object of its client

vars == << isActive, players, hashes, startTime, clients, endTimers, startTimers,
           listening, now, sent, accepted, tapsWhileActive, newHashSent,
           lastRoundEvent, lastOp, digestIn, zerosOut, link, seen, isShuttingDown,
           joinedSince, misses, sha, twin, lastMsg, health, feed, inbox, page >>

gameVars == << isActive, players, hashes, startTime >>
histVars == << accepted, tapsWhileActive, newHashSent, lastRoundEvent >>
unitVars == << digestIn, zerosOut >>
pageVars == << health, feed, inbox, page >>
auxVars  == << seen, isShuttingDown, joinedSince, misses, sha, twin, lastMsg, pageVars >>

\* ------------------------------------------------------------- helpers

\* function countLeadingZeros(hash): the for loop from index i (1-based here)
RECURSIVE countLeadingZerosFrom(_, _)
countLeadingZerosFrom(hash, i) ==
    IF i > Len(hash) THEN Len(hash)
    ELSE IF hash[i] # "0" THEN i - 1
    ELSE countLeadingZerosFrom(hash, i + 1)

\* faulty variant: returns the 1-based position of the first other character
countLeadingZeros_OneBased(hash) ==
    IF countLeadingZerosFrom(hash, 1) < Len(hash)
    THEN countLeadingZerosFrom(hash, 1) + 1
    ELSE Len(hash)

countLeadingZeros(hash) == countLeadingZerosFrom(hash, 1)

\* Map operations on gameState.players
EmptyMap == [id \in {} |-> Undefined]
MapSet(m, k, v) == [id \in (DOMAIN m) \cup {k} |-> IF id = k THEN v ELSE m[id]]
\* faulty variant: the whole map is emptied
MapDelete_Clear(m, k) == EmptyMap
MapDelete(m, k) == [id \in (DOMAIN m) \ {k} |-> m[id]]
MapGet(m, k) == IF k \in DOMAIN m THEN m[k] ELSE Undefined
MapSize(m) == Cardinality(DOMAIN m)

\* client.readyState === WebSocket.OPEN, over wss.clients
OpenClients == {c \in Conns : clients[c].readyState = "OPEN"}

\* faulty variant: a send on a failed socket throws and ends the forEach loop
broadcast_AbortOnFailure(message) ==
    [to  |-> IF \E c \in OpenClients : link[c].socket = "failed" THEN {} ELSE OpenClients,
     msg |-> message]

\* faulty variant: the readyState test is missing
broadcast_NoStateCheck(message) ==
    [to |-> {c \in Conns : clients[c].readyState # "NONE"}, msg |-> message]

\* function broadcast(message): one send to every open client
\* faulty variant: only connections that have joined are written to
broadcast_JoinedOnly(message) == [to |-> OpenClients \cap joinedSince, msg |-> message]

broadcast(message) == [to |-> OpenClients, msg |-> message]

\* broadcast from a 'close' handler: ws has already left wss.clients
broadcastWithout(ws, message) == [to |-> OpenClients \ {ws}, msg |-> message]

\* ws.send(...) to one connection
sendTo(ws, message) == [to |-> {ws}, msg |-> message]

\* The transport under a connection: ws.isAlive (set on connection and on pong,
\* cleared by the heartbeat sweep), whether the ws receiver still hands frames to
\* the listeners, and whether the socket still carries what is written to it.
FreshLink == [isAlive |-> TRUE, receiver |-> "ok", socket |-> "up"]

\* faulty variant: an unstable sort, equal timestamps change places
RECURSIVE insertByTimestamp_BeforeEqual(_, _)
insertByTimestamp_BeforeEqual(sorted, h) ==
    IF sorted = <<>> THEN <<h>>
    ELSE IF sorted[Len(sorted)].timestamp - h.timestamp >= 0
         THEN Append(insertByTimestamp_BeforeEqual(SubSeq(sorted, 1, Len(sorted) - 1), h),
                     sorted[Len(sorted)])
         ELSE Append(sorted, h)

\* gameState.hashes.sort((a, b) => a.timestamp - b.timestamp): Array.prototype.sort
\* is stable; modelled as a stable insertion sort.
RECURSIVE insertByTimestamp(_, _)
insertByTimestamp(sorted, h) ==
    IF sorted = <<>> THEN <<h>>
    ELSE IF sorted[Len(sorted)].timestamp - h.timestamp > 0
         THEN Append(insertByTimestamp(SubSeq(sorted, 1, Len(sorted) - 1), h),
                     sorted[Len(sorted)])
         ELSE Append(sorted, h)

RECURSIVE sortByTimestamp(_)
sortByTimestamp(hs) ==
    IF hs = <<>> THEN <<>>
    ELSE insertByTimestamp(sortByTimestamp(SubSeq(hs, 1, Len(hs) - 1)), hs[Len(hs)])

\* the winner loop of endGame: state [winner, maxZeros], winner = 0 is null
RECURSIVE scanWinner(_, _, _)
scanWinner(hs, i, acc) ==
    IF i > Len(hs) THEN acc
    ELSE LET zeros == countLeadingZeros(hs[i].hash) IN
         IF zeros > acc.maxZeros
         THEN scanWinner(hs, i + 1, [winner |-> i, maxZeros |-> zeros])
         ELSE scanWinner(hs, i + 1, acc)

\* faulty variant: zeros >= maxZeros, a later tie replaces the winner
RECURSIVE scanWinner_LastTie(_, _, _)
scanWinner_LastTie(hs, i, acc) ==
    IF i > Len(hs) THEN acc
    ELSE LET zeros == countLeadingZeros(hs[i].hash) IN
         IF zeros >= acc.maxZeros
         THEN scanWinner_LastTie(hs, i + 1, [winner |-> i, maxZeros |-> zeros])
         ELSE scanWinner_LastTie(hs, i + 1, acc)

findWinner_LastTie(hs) == scanWinner_LastTie(hs, 1, [winner |-> 0, maxZeros |-> -1])

\* faulty variant: let maxZeros = 0
findWinner_FromZero(hs) == scanWinner(hs, 1, [winner |-> 0, maxZeros |-> 0])

findWinner(hs) == scanWinner(hs, 1, [winner |-> 0, maxZeros |-> -1])

\* the winner field of the gameEnd message
winnerField(hs, roster) ==
    LET r == findWinner(hs) IN
    IF r.winner # 0
    THEN [playerId    |-> hs[r.winner].playerId,
          playerName  |-> MapGet(roster, hs[r.winner].playerId),
          hash        |-> hs[r.winner].hash,
          leadingZeros |-> r.maxZeros]
    ELSE NoWinner

\* ------------------------------------------------------------- initial state
NoWs == "-"
Op(name, ws) == [op |-> name, ws |-> ws]
NoClient == [readyState |-> "NONE", playerId |-> NoId]
NoMsg == [type |-> "none", lacks |-> FALSE]         \* the last handler was not a 'message' handler
NoHealth == [active |-> FALSE, players |-> -1, timeRemaining |-> -1]  \* no reply yet
\* new TapMinerGame(): gameActive false, gameEndTime null, tapCount 0, no socket.
\* stage is the state of this.ws and its handlers: "login" (no socket),
\* "joinOnOpen" (joinGame made it, onopen will send join), "logOnOpen" (the
\* reconnect timer made it, onopen logs), "open" (onopen ran), "closed"
\* (onclose ran, the reconnect timer is pending).  joins is history: the join
\* messages the page has sent.
FreshPage == [gameActive |-> FALSE, gameEndTime |-> NullTime, tapCount |-> 0,
              stage |-> "login", joins |-> 0]
NoSha == << >>                      \* no digest function is fixed: the tap handler draws

InitGame ==
    /\ isActive = FALSE
    /\ players = EmptyMap
    /\ hashes = <<>>
    /\ startTime = NullTime
    /\ clients = [c \in Conns |-> NoClient]
    /\ endTimers = 0
    /\ startTimers = 0
    /\ listening = FALSE
    /\ now \in Times
    /\ sent = <<>>
    /\ accepted = <<>>
    /\ tapsWhileActive = 0
    /\ newHashSent = 0
    /\ lastRoundEvent = "none"
    /\ lastOp = Op("init", NoWs)
    /\ link = [c \in Conns |-> FreshLink]
    /\ seen = [c \in Conns |-> "none"]
    /\ isShuttingDown = FALSE
    /\ joinedSince = {}
    /\ misses = [c \in Conns |-> 0]
    /\ sha = NoSha
    /\ twin = <<>>
    /\ lastMsg = NoMsg
    /\ health = NoHealth
    /\ feed = <<>>
    /\ inbox = [c \in Conns |-> <<>>]
    /\ page = [c \in Conns |-> FreshPage]

Init ==
    /\ InitGame
    /\ digestIn = <<>>
    /\ zerosOut = -1

\* ------------------------------------------------------------- operations

\* faulty variant: gameState.hashes = [] is missing
startNewGame_KeepHashes ==
    /\ isActive' = TRUE
    /\ players' = EmptyMap
    /\ hashes' = hashes
    /\ startTime' = now
    /\ sent' = << broadcast([type |-> "gameStart", startTime |-> now]) >>
    /\ endTimers' = endTimers + 1
    /\ accepted' = <<>>
    /\ tapsWhileActive' = 0
    /\ newHashSent' = 0
    /\ lastRoundEvent' = "gameStart"

\* faulty variant: gameState.players.clear() is missing
startNewGame_KeepRoster ==
    /\ isActive' = TRUE
    /\ players' = players
    /\ hashes' = <<>>
    /\ startTime' = now
    /\ sent' = << broadcast([type |-> "gameStart", startTime |-> now]) >>
    /\ endTimers' = endTimers + 1
    /\ accepted' = <<>>
    /\ tapsWhileActive' = 0
    /\ newHashSent' = 0
    /\ lastRoundEvent' = "gameStart"

\* function startNewGame()
startNewGame ==
    /\ isActive' = TRUE
    /\ players' = EmptyMap
    /\ hashes' = <<>>
    /\ startTime' = now
    /\ sent' = << broadcast([type |-> "gameStart", startTime |-> now]) >>
    /\ endTimers' = endTimers + 1
    /\ accepted' = <<>>
    /\ tapsWhileActive' = 0
    /\ newHashSent' = 0
    /\ lastRoundEvent' = "gameStart"

\* faulty variant: the next game is not scheduled
endGame_NoRestart ==
    LET sorted == sortByTimestamp(hashes) IN
    /\ isActive' = FALSE
    /\ hashes' = sorted
    /\ sent' = << broadcast([type      |-> "gameEnd",
                             winner    |-> winnerField(sorted, players),
                             allHashes |-> sorted]) >>
    /\ startTimers' = startTimers
    /\ lastRoundEvent' = "gameEnd"
    /\ UNCHANGED << players, startTime, accepted, tapsWhileActive, newHashSent >>

\* faulty variant: gameState.isActive = false is missing
endGame_StaysActive ==
    LET sorted == sortByTimestamp(hashes) IN
    /\ isActive' = isActive
    /\ hashes' = sorted
    /\ sent' = << broadcast([type      |-> "gameEnd",
                             winner    |-> winnerField(sorted, players),
                             allHashes |-> sorted]) >>
    /\ startTimers' = startTimers + 1
    /\ lastRoundEvent' = "gameEnd"
    /\ UNCHANGED << players, startTime, accepted, tapsWhileActive, newHashSent >>

\* function endGame()
endGame ==
    LET sorted == sortByTimestamp(hashes) IN
    /\ isActive' = FALSE
    /\ hashes' = sorted
    /\ sent' = << broadcast([type      |-> "gameEnd",
                             winner    |-> winnerField(sorted, players),
                             allHashes |-> sorted]) >>
    /\ startTimers' = startTimers + 1
    /\ lastRoundEvent' = "gameEnd"
    /\ UNCHANGED << players, startTime, accepted, tapsWhileActive, newHashSent >>

\* server.listen(PORT, '0.0.0.0', () => { ...; startNewGame(); resolve(); })
Listen ==
    /\ ~listening
    /\ listening' = TRUE
    /\ startNewGame
    /\ lastOp' = Op("listen", NoWs)
    /\ UNCHANGED << clients, startTimers, now, link >>
    /\ UNCHANGED unitVars

\* faulty variant: setInterval in place of setTimeout, the timer stays armed
EndGameTimer_Interval ==
    /\ endTimers > 0
    /\ endTimers' = endTimers
    /\ endGame
    /\ lastOp' = Op("endGame", NoWs)
    /\ UNCHANGED << clients, listening, now, link >>
    /\ UNCHANGED unitVars

\* the timer set by startNewGame fires: () => endGame()
EndGameTimer ==
    /\ endTimers > 0
    /\ endTimers' = endTimers - 1
    /\ endGame
    /\ lastOp' = Op("endGame", NoWs)
    /\ UNCHANGED << clients, listening, now, link >>
    /\ UNCHANGED unitVars

\* the timer set by endGame fires: () => startNewGame()
StartGameTimer ==
    /\ startTimers > 0
    /\ startTimers' = startTimers - 1
    /\ startNewGame
    /\ lastOp' = Op("startNewGame", NoWs)
    /\ UNCHANGED << clients, listening, now, link >>
    /\ UNCHANGED unitVars

\* wss.on('connection', (ws) => { const playerId = crypto.randomBytes(8)... })
OnConnection(ws, playerId) ==
    /\ listening
    /\ clients[ws].readyState = "NONE"
    /\ clients' = [clients EXCEPT ![ws] = [readyState |-> "OPEN", playerId |-> playerId]]
    /\ link' = [link EXCEPT ![ws] = FreshLink]
    /\ sent' = <<>>
    /\ lastOp' = Op("connection", ws)
    /\ UNCHANGED << gameVars, endTimers, startTimers, listening, now >>
    /\ UNCHANGED histVars
    /\ UNCHANGED unitVars

\* faulty variant: playerCount is read before the roster is updated
OnJoin_CountBefore(ws, playerName) ==
    LET playerId == clients[ws].playerId
        roster   == MapSet(players, playerId, playerName) IN
    /\ clients[ws].readyState = "OPEN"
    /\ link[ws].receiver = "ok"
    /\ players' = roster
    /\ sent' = << sendTo(ws, [type       |-> "joined",
                              playerId   |-> playerId,
                              gameActive |-> isActive,
                              startTime  |-> startTime,
                              duration   |-> duration]),
                  broadcast([type        |-> "playerJoined",
                             playerId    |-> playerId,
                             playerName  |-> playerName,
                             playerCount |-> MapSize(players)]) >>
    /\ lastOp' = Op("join", ws)
    /\ UNCHANGED << isActive, hashes, startTime, clients, endTimers, startTimers,
                    listening, now, link >>
    /\ UNCHANGED histVars
    /\ UNCHANGED unitVars

\* faulty variant: the acknowledgment goes through broadcast
OnJoin_BroadcastAck(ws, playerName) ==
    LET playerId == clients[ws].playerId
        roster   == MapSet(players, playerId, playerName) IN
    /\ clients[ws].readyState = "OPEN"
    /\ link[ws].receiver = "ok"
    /\ players' = roster
    /\ sent' = << broadcast([type       |-> "joined",
                             playerId   |-> playerId,
                             gameActive |-> isActive,
                             startTime  |-> startTime,
                             duration   |-> duration]),
                  broadcast([type        |-> "playerJoined",
                             playerId    |-> playerId,
                             playerName  |-> playerName,
                             playerCount |-> MapSize(roster)]) >>
    /\ lastOp' = Op("join", ws)
    /\ UNCHANGED << isActive, hashes, startTime, clients, endTimers, startTimers,
                    listening, now, link >>
    /\ UNCHANGED histVars
    /\ UNCHANGED unitVars

\* faulty variant: the snapshot reports the time of the join as the start time
OnJoin_StartNow(ws, playerName) ==
    LET playerId == clients[ws].playerId
        roster   == MapSet(players, playerId, playerName) IN
    /\ clients[ws].readyState = "OPEN"
    /\ link[ws].receiver = "ok"
    /\ players' = roster
    /\ sent' = << sendTo(ws, [type       |-> "joined",
                              playerId   |-> playerId,
                              gameActive |-> isActive,
                              startTime  |-> now,
                              duration   |-> duration]),
                  broadcast([type        |-> "playerJoined",
                             playerId    |-> playerId,
                             playerName  |-> playerName,
                             playerCount |-> MapSize(roster)]) >>
    /\ lastOp' = Op("join", ws)
    /\ UNCHANGED << isActive, hashes, startTime, clients, endTimers, startTimers,
                    listening, now, link >>
    /\ UNCHANGED histVars
    /\ UNCHANGED unitVars

\* faulty variant: the new name is written into the player's earlier submissions
OnJoin_Rename(ws, playerName) ==
    LET playerId == clients[ws].playerId
        roster   == MapSet(players, playerId, playerName) IN
    /\ clients[ws].readyState = "OPEN"
    /\ link[ws].receiver = "ok"
    /\ players' = roster
    /\ hashes' = [i \in DOMAIN hashes |->
                     IF hashes[i].playerId = playerId
                     THEN [hashes[i] EXCEPT !.playerName = playerName]
                     ELSE hashes[i]]
    /\ sent' = << sendTo(ws, [type       |-> "joined",
                              playerId   |-> playerId,
                              gameActive |-> isActive,
                              startTime  |-> startTime,
                              duration   |-> duration]),
                  broadcast([type        |-> "playerJoined",
                             playerId    |-> playerId,
                             playerName  |-> playerName,
                             playerCount |-> MapSize(roster)]) >>
    /\ lastOp' = Op("join", ws)
    /\ UNCHANGED << isActive, startTime, clients, endTimers, startTimers,
                    listening, now, link >>
    /\ UNCHANGED histVars
    /\ UNCHANGED unitVars

\* ws.on('message') case 'join'
OnJoin(ws, playerName) ==
    LET playerId == clients[ws].playerId
        roster   == MapSet(players, playerId, playerName) IN
    /\ clients[ws].readyState = "OPEN"
    /\ link[ws].receiver = "ok"
    /\ players' = roster
    /\ sent' = << sendTo(ws, [type       |-> "joined",
                              playerId   |-> playerId,
                              gameActive |-> isActive,
                              startTime  |-> startTime,
                              duration   |-> duration]),
                  broadcast([type        |-> "playerJoined",
                             playerId    |-> playerId,
                             playerName  |-> playerName,
                             playerCount |-> MapSize(roster)]) >>
    /\ lastOp' = Op("join", ws)
    /\ UNCHANGED << isActive, hashes, startTime, clients, endTimers, startTimers,
                    listening, now, link >>
    /\ UNCHANGED histVars
    /\ UNCHANGED unitVars

\* faulty variant: the array is replaced by the new submission, not extended
recordTap_Overwrite(ws, tapCount, hash) ==
    LET playerId == clients[ws].playerId
        entry == [playerId   |-> playerId,
                  playerName |-> MapGet(players, playerId),
                  hash       |-> hash,
                  timestamp  |-> now,
                  tapCount   |-> tapCount] IN
    /\ hashes' = << entry >>
    /\ sent' = << broadcast([type         |-> "newHash",
                             playerId     |-> playerId,
                             playerName   |-> MapGet(players, playerId),
                             hash         |-> hash,
                             leadingZeros |-> countLeadingZeros(hash)]) >>

\* faulty variant: a tap of an identity that is not in the roster is dropped
recordTap_JoinedOnly(ws, tapCount, hash) ==
    LET playerId == clients[ws].playerId
        entry == [playerId   |-> playerId,
                  playerName |-> MapGet(players, playerId),
                  hash       |-> hash,
                  timestamp  |-> now,
                  tapCount   |-> tapCount] IN
    IF playerId \in DOMAIN players
    THEN /\ hashes' = Append(hashes, entry)
         /\ sent' = << broadcast([type         |-> "newHash",
                                  playerId     |-> playerId,
                                  playerName   |-> MapGet(players, playerId),
                                  hash         |-> hash,
                                  leadingZeros |-> countLeadingZeros(hash)]) >>
    ELSE /\ sent' = <<>>
         /\ UNCHANGED hashes

\* the body of case 'tap' under if (gameState.isActive)
recordTap(ws, tapCount, hash) ==
    LET playerId == clients[ws].playerId
        entry == [playerId   |-> playerId,
                  playerName |-> MapGet(players, playerId),
                  hash       |-> hash,
                  timestamp  |-> now,
                  tapCount   |-> tapCount] IN
    /\ hashes' = Append(hashes, entry)
    /\ sent' = << broadcast([type         |-> "newHash",
                             playerId     |-> playerId,
                             playerName   |-> MapGet(players, playerId),
                             hash         |-> hash,
                             leadingZeros |-> countLeadingZeros(hash)]) >>

\* case 'tap' when the round is not active: the switch falls through to break
ignoreTap ==
    /\ sent' = <<>>
    /\ UNCHANGED hashes

\* faulty variant: the isActive test is missing
tapGate_Always == TRUE

\* the condition of case 'tap'
tapGate == isActive

\* ws.on('message') case 'tap'; hash is the sha256 digest of
\* `${playerId}${timestamp}${data.tapCount}`, any hex string to the model
OnTap(ws, tapCount, hash) ==
    /\ clients[ws].readyState = "OPEN"
    /\ link[ws].receiver = "ok"
    /\ IF tapGate THEN recordTap(ws, tapCount, hash) ELSE ignoreTap
    /\ lastOp' = Op("tap", ws)
    /\ accepted' = accepted \o SubSeq(hashes', Len(hashes) + 1, Len(hashes'))
    /\ tapsWhileActive' = IF isActive THEN tapsWhileActive + 1 ELSE tapsWhileActive
    /\ newHashSent' = newHashSent + Cardinality({i \in DOMAIN sent' : sent'[i].msg.type = "newHash"})
    /\ UNCHANGED << isActive, players, startTime, clients, endTimers, startTimers,
                    listening, now, lastRoundEvent, link >>
    /\ UNCHANGED unitVars

\* the message of the 'close' handler
playerLeft(ws, roster) ==
    << broadcastWithout(ws, [type        |-> "playerLeft",
                             playerId    |-> clients[ws].playerId,
                             playerCount |-> MapSize(roster)]) >>

\* history: 'close' emitted for an open connection, or after ws.terminate()
closeKind(ws) == IF clients[ws].readyState = "CLOSING" THEN "closeTerminated" ELSE "close"

\* faulty variant: the submissions of the leaving player are removed as well
OnClose_DropHashes(ws) ==
    LET roster == MapDelete(players, clients[ws].playerId) IN
    /\ clients[ws].readyState \in {"OPEN", "CLOSING"}
    /\ clients' = [clients EXCEPT ![ws] = NoClient]
    /\ link' = [link EXCEPT ![ws] = FreshLink]
    /\ players' = roster
    /\ hashes' = SelectSeq(hashes, LAMBDA h : h.playerId # clients[ws].playerId)
    /\ sent' = playerLeft(ws, roster)
    /\ lastOp' = Op(closeKind(ws), ws)
    /\ UNCHANGED << isActive, startTime, endTimers, startTimers, listening, now >>
    /\ UNCHANGED histVars
    /\ UNCHANGED unitVars

\* faulty variant: the round is ended when the last player leaves
OnClose_AbortsRound(ws) ==
    LET roster == MapDelete(players, clients[ws].playerId) IN
    /\ clients[ws].readyState \in {"OPEN", "CLOSING"}
    /\ clients' = [clients EXCEPT ![ws] = NoClient]
    /\ link' = [link EXCEPT ![ws] = FreshLink]
    /\ players' = roster
    /\ isActive' = (isActive /\ roster # EmptyMap)
    /\ sent' = playerLeft(ws, roster)
    /\ lastOp' = Op(closeKind(ws), ws)
    /\ UNCHANGED << hashes, startTime, endTimers, startTimers, listening, now >>
    /\ UNCHANGED histVars
    /\ UNCHANGED unitVars

\* ws.on('close')
OnClose(ws) ==
    LET roster == MapDelete(players, clients[ws].playerId) IN
    /\ clients[ws].readyState \in {"OPEN", "CLOSING"}
    /\ clients' = [clients EXCEPT ![ws] = NoClient]
    /\ link' = [link EXCEPT ![ws] = FreshLink]
    /\ players' = roster
    /\ sent' = playerLeft(ws, roster)
    /\ lastOp' = Op(closeKind(ws), ws)
    /\ UNCHANGED << isActive, hashes, startTime, endTimers, startTimers, listening, now >>
    /\ UNCHANGED histVars
    /\ UNCHANGED unitVars

\* faulty variant: the connection is dropped from wss.clients without 'close'
terminate_NoCloseEvent(ws) == NoClient

\* ws.terminate(): the socket is destroyed; the 'close' event follows later
terminate(ws) == [clients[ws] EXCEPT !.readyState = "CLOSING"]

\* faulty variant: ws.isAlive = false is missing, no connection is ever found silent
Sweep_KeepsMark ==
    /\ clients' = [c \in Conns |->
                      IF clients[c].readyState # "NONE" /\ ~link[c].isAlive
                      THEN terminate(c) ELSE clients[c]]
    /\ sent' = <<>>
    /\ lastOp' = Op("sweep", NoWs)
    /\ UNCHANGED << gameVars, endTimers, startTimers, listening, now, link >>
    /\ UNCHANGED histVars
    /\ UNCHANGED unitVars

\* the setInterval callback of the heartbeat: a client that has not answered the
\* last ping is terminated, every other one is marked and pinged
Sweep ==
    /\ clients' = [c \in Conns |->
                      IF clients[c].readyState # "NONE" /\ ~link[c].isAlive
                      THEN terminate(c) ELSE clients[c]]
    /\ link' = [c \in Conns |->
                   IF clients[c].readyState # "NONE" /\ link[c].isAlive
                   THEN [link[c] EXCEPT !.isAlive = FALSE] ELSE link[c]]
    /\ sent' = <<>>
    /\ lastOp' = Op("sweep", NoWs)
    /\ UNCHANGED << gameVars, endTimers, startTimers, listening, now >>
    /\ UNCHANGED histVars
    /\ UNCHANGED unitVars

\* ws.on('pong', heartbeat): the peer answered the ping of the last sweep
OnPong(ws) ==
    /\ clients[ws].readyState = "OPEN"
    /\ link[ws].receiver = "ok"
    /\ link[ws].socket = "up"
    /\ ~link[ws].isAlive
    /\ link' = [link EXCEPT ![ws].isAlive = TRUE]
    /\ sent' = <<>>
    /\ lastOp' = Op("pong", ws)
    /\ UNCHANGED << gameVars, clients, endTimers, startTimers, listening, now >>
    /\ UNCHANGED histVars
    /\ UNCHANGED unitVars

\* ws.on('message') with a text that is not JSON: JSON.parse throws out of the
\* listener, nothing after it runs, process.on('uncaughtException') logs the
\* error.  The exception unwinds through the receiver of the ws library in the
\* middle of a frame: whether that receiver processes later frames is not
\* decided by this code, both outcomes are possible.
OnUndecodable(ws) ==
    /\ clients[ws].readyState = "OPEN"
    /\ link[ws].receiver = "ok"
    /\ \E r \in {"ok", "stuck"} : link' = [link EXCEPT ![ws].receiver = r]
    /\ sent' = <<>>
    /\ lastOp' = Op("undecodable", ws)
    /\ UNCHANGED << gameVars, clients, endTimers, startTimers, listening, now >>
    /\ UNCHANGED histVars
    /\ UNCHANGED unitVars

\* what JSON.parse returns for a text that is JSON but neither a join nor a tap:
\* "object" is a value whose type property is another string or is missing
\* ({"type":"ping"}, {}, 5, "x"), "null" is the JSON text null
OtherPayloads == {"object", "null"}

\* faulty variant: a default case answers with an error message
OnOtherMessage_Echo(ws, payload) ==
    /\ clients[ws].readyState = "OPEN"
    /\ link[ws].receiver = "ok"
    /\ IF payload = "null"
       THEN \E r \in {"ok", "stuck"} : link' = [link EXCEPT ![ws].receiver = r]
       ELSE UNCHANGED link
    /\ sent' = << sendTo(ws, [type |-> "error"]) >>
    /\ lastOp' = Op("other", ws)
    /\ UNCHANGED << gameVars, clients, endTimers, startTimers, listening, now >>
    /\ UNCHANGED histVars
    /\ UNCHANGED unitVars

\* ws.on('message') with such a text.  The switch has no default case: for an
\* "object" no case matches and the handler returns.  For null, data.type
\* throws a TypeError out of the listener before the switch, with the effect
\* on the receiver described at OnUndecodable.
OnOtherMessage(ws, payload) ==
    /\ clients[ws].readyState = "OPEN"
    /\ link[ws].receiver = "ok"
    /\ IF payload = "null"
       THEN \E r \in {"ok", "stuck"} : link' = [link EXCEPT ![ws].receiver = r]
       ELSE UNCHANGED link
    /\ sent' = <<>>
    /\ lastOp' = Op("other", ws)
    /\ UNCHANGED << gameVars, clients, endTimers, startTimers, listening, now >>
    /\ UNCHANGED histVars
    /\ UNCHANGED unitVars

\* the socket under an open connection stops carrying data (the peer is gone);
\* readyState stays OPEN until the failure is noticed and 'close' is emitted
SocketFail(ws) ==
    /\ clients[ws].readyState = "OPEN"
    /\ link[ws].socket = "up"
    /\ link' = [link EXCEPT ![ws].socket = "failed"]
    /\ sent' = <<>>
    /\ lastOp' = Op("socketFail", ws)
    /\ UNCHANGED << gameVars, clients, endTimers, startTimers, listening, now >>
    /\ UNCHANGED histVars
    /\ UNCHANGED unitVars

\* app.get('/health'): the reply is built from process data and wss.clients
\* (size, isAlive); gameState is not read and nothing is written to a socket
OnHealth ==
    /\ listening
    /\ sent' = <<>>
    /\ lastOp' = Op("health", NoWs)
    /\ UNCHANGED << gameVars, clients, endTimers, startTimers, listening, now, link >>
    /\ UNCHANGED histVars
    /\ UNCHANGED unitVars

\* Math.max(a, b)
Max(a, b) == IF a >= b THEN a ELSE b

\* faulty variant: timeRemaining is not clamped at 0
healthGame_NoClamp ==
    [active        |-> isActive,
     players       |-> MapSize(players),
     timeRemaining |-> IF isActive THEN (startTime + duration) - now ELSE 0]

\* the game block of the /health reply in the variant that reports the round
healthGame ==
    [active        |-> isActive,
     players       |-> MapSize(players),
     timeRemaining |-> IF isActive THEN Max(0, (startTime + duration) - now) ELSE 0]

\* app.get('/health') of that variant: res.json(health)
OnHealthGame ==
    /\ OnHealth
    /\ health' = healthGame
    /\ UNCHANGED << seen, isShuttingDown, joinedSince, misses, sha, twin, lastMsg,
                    feed, inbox, page >>

\* the process is held up for longer than a round: the wall clock passes the
\* end of the round before the endGame timer runs
ClockStall ==
    /\ now <= MaxTime
    /\ now' = now + duration + 1
    /\ sent' = <<>>
    /\ lastOp' = Op("clock", NoWs)
    /\ UNCHANGED << gameVars, clients, endTimers, startTimers, listening, link >>
    /\ UNCHANGED histVars
    /\ UNCHANGED unitVars

\* faulty variant: the isShuttingDown test is missing, every signal runs the body
gracefulShutdown_NoGuard ==
    /\ isShuttingDown' = TRUE
    /\ sent' = <<>>
    /\ lastOp' = Op("signal", NoWs)
    /\ UNCHANGED << gameVars, clients, endTimers, startTimers, listening, now, link >>
    /\ UNCHANGED histVars
    /\ UNCHANGED unitVars

\* gracefulShutdown(signal), the handler of SIGTERM and SIGINT.  A signal after
\* the first returns at once.  The first one sets serverState.isShuttingDown,
\* calls server.unref() and evaluates `if (gameTimer)`: no gameTimer is declared
\* in the file (the handles setTimeout returns are not kept), so a
\* ReferenceError is thrown there.  The statements after it (clearTimeout, the
\* system message to the clients, wss.close, server.close, process.exit) do not
\* run; process.on('uncaughtException') logs the error and the process goes on.
gracefulShutdown ==
    /\ isShuttingDown' = TRUE
    /\ sent' = <<>>
    /\ lastOp' = Op(IF isShuttingDown THEN "signalIgnored" ELSE "signal", NoWs)
    /\ UNCHANGED << gameVars, clients, endTimers, startTimers, listening, now, link >>
    /\ UNCHANGED histVars
    /\ UNCHANGED unitVars

\* at most n submissions per round are explored
TapBudget(n) == isActive => Len(hashes) < n

\* the wall clock advances
Tick ==
    /\ now < MaxTime
    /\ now' = now + 1
    /\ sent' = <<>>
    /\ lastOp' = Op("clock", NoWs)
    /\ UNCHANGED << gameVars, clients, endTimers, startTimers, listening, link >>
    /\ UNCHANGED histVars
    /\ UNCHANGED unitVars

\* the wall clock is set back (Date.now() is not monotonic)
ClockStepBack ==
    /\ now > 0
    /\ now' \in 0..(now - 1)
    /\ sent' = <<>>
    /\ lastOp' = Op("clock", NoWs)
    /\ UNCHANGED << gameVars, clients, endTimers, startTimers, listening, link >>
    /\ UNCHANGED histVars
    /\ UNCHANGED unitVars

Next ==
    \/ Listen /\ UNCHANGED auxVars
    \/ EndGameTimer /\ UNCHANGED auxVars
    \/ StartGameTimer /\ UNCHANGED auxVars
    \/ \E ws \in Conns, playerId \in PlayerIds : OnConnection(ws, playerId) /\ UNCHANGED auxVars
    \/ \E ws \in Conns, playerName \in Names : OnJoin(ws, playerName) /\ UNCHANGED auxVars
    \/ TapBudget(MaxHashes) /\ \E ws \in Conns, tapCount \in TapCounts, hash \in TapDigests :
                                    OnTap(ws, tapCount, hash) /\ UNCHANGED auxVars
    \/ \E ws \in Conns : OnClose(ws) /\ UNCHANGED auxVars
    \/ Tick /\ UNCHANGED auxVars
    \/ ClockStepBack /\ UNCHANGED auxVars

Spec == Init /\ [][Next]_vars

\* The handlers under a clock that stands still (setTimeout does not read
\* Date.now()); setTimeout callbacks run once their delay has passed.
NextCycle ==
    \/ Listen /\ UNCHANGED auxVars
    \/ EndGameTimer /\ UNCHANGED auxVars
    \/ StartGameTimer /\ UNCHANGED auxVars
    \/ \E ws \in Conns, playerId \in PlayerIds : OnConnection(ws, playerId) /\ UNCHANGED auxVars
    \/ \E ws \in Conns, playerName \in Names : OnJoin(ws, playerName) /\ UNCHANGED auxVars
    \/ TapBudget(MaxHashes) /\ \E ws \in Conns, tapCount \in TapCounts, hash \in TapDigests :
                                    OnTap(ws, tapCount, hash) /\ UNCHANGED auxVars
    \/ \E ws \in Conns : OnClose(ws) /\ UNCHANGED auxVars

InitCycle ==
    /\ Init
    /\ now = 0

FairCycle ==
    /\ InitCycle
    /\ [][NextCycle]_vars
    /\ WF_vars(EndGameTimer /\ UNCHANGED auxVars)
    /\ WF_vars(StartGameTimer /\ UNCHANGED auxVars)

\* ------------------------------------------------- connections and transport
\* The handlers other than tap with the heartbeat, undecodable messages and
\* failing sockets, two display names, under a clock that stands still.

\* the connections that receive a message written to the connections in `to`
Reached(to) == {c \in to : link[c].socket = "up"}

\* the round events among the messages just written that reached connection c
RoundEventsTo(c) ==
    SelectSeq(sent', LAMBDA m : /\ m.msg.type \in {"gameStart", "gameEnd"}
                                /\ c \in Reached(m.to))

\* history: the last round event each connection received since it was opened
WatchSeen ==
    seen' = [c \in Conns |->
                IF clients'[c].readyState = "NONE" \/ lastOp' = Op("connection", c)
                THEN "none"
                ELSE IF RoundEventsTo(c) # <<>>
                     THEN RoundEventsTo(c)[Len(RoundEventsTo(c))].msg.type
                     ELSE seen[c]]

Watch == WatchSeen /\ UNCHANGED << isShuttingDown, joinedSince, misses, sha, twin, lastMsg, pageVars >>

NextConn ==
    \/ Listen /\ Watch
    \/ EndGameTimer /\ Watch
    \/ StartGameTimer /\ Watch
    \/ \E ws \in Conns, playerId \in PlayerIds : OnConnection(ws, playerId) /\ Watch
    \/ \E ws \in Conns, playerName \in JoinNames : OnJoin(ws, playerName) /\ Watch
    \/ \E ws \in Conns : OnClose(ws) /\ Watch
    \/ Sweep /\ Watch
    \/ \E ws \in Conns : OnPong(ws) /\ Watch
    \/ \E ws \in Conns : OnUndecodable(ws) /\ Watch
    \/ \E ws \in Conns : SocketFail(ws) /\ Watch

SpecConn == InitCycle /\ [][NextConn]_vars

\* The round cycle with taps, joins, closing connections and failing sockets.
NextOrder ==
    \/ Listen /\ Watch
    \/ EndGameTimer /\ Watch
    \/ StartGameTimer /\ Watch
    \/ \E ws \in Conns, playerId \in PlayerIds : OnConnection(ws, playerId) /\ Watch
    \/ \E ws \in Conns, playerName \in Names : OnJoin(ws, playerName) /\ Watch
    \/ TapBudget(MaxOrderTaps) /\ \E ws \in Conns, tapCount \in TapCounts, hash \in TapDigests :
                                       OnTap(ws, tapCount, hash) /\ Watch
    \/ \E ws \in Conns : OnClose(ws) /\ Watch
    \/ \E ws \in Conns : SocketFail(ws) /\ Watch

SpecOrder == InitCycle /\ [][NextOrder]_vars

\* ------------------------------------------------- a round with given content
\* An active round as the tap handler can leave it: any digests, any
\* timestamps (the wall clock may have been set back between taps); c1 joined
\* as Alice and tapped, c2 connected last.
RoundEntries ==
    [playerId : {"p1"}, playerName : {"Alice"}, hash : Digests,
     timestamp : Times, tapCount : TapCounts]

RoundsUpTo(n) == UNION { [1..len -> RoundEntries] : len \in 0..n }

InitRound ==
    /\ isActive = TRUE
    /\ players = MapSet(EmptyMap, "p1", "Alice")
    /\ hashes \in RoundsUpTo(MaxRoundLen)
    /\ startTime = 0
    /\ clients = [c \in Conns |-> [readyState |-> "OPEN",
                                   playerId |-> IF c = "c1" THEN "p1" ELSE "p2"]]
    /\ endTimers = 1
    /\ startTimers = 0
    /\ listening = TRUE
    /\ now = MaxTime
    /\ sent = <<>>
    /\ accepted = hashes
    /\ tapsWhileActive = Len(hashes)
    /\ newHashSent = Len(hashes)
    /\ lastRoundEvent = "gameStart"
    /\ lastOp = Op("connection", "c2")
    /\ digestIn = <<>>
    /\ zerosOut = -1
    /\ link = [c \in Conns |-> FreshLink]
    /\ seen = [c \in Conns |-> "none"]
    /\ isShuttingDown = FALSE
    /\ joinedSince = {"c1"}
    /\ misses = [c \in Conns |-> 0]
    /\ sha = NoSha
    /\ twin = <<>>
    /\ lastMsg = NoMsg
    /\ health = NoHealth
    /\ feed = <<>>
    /\ inbox = [c \in Conns |-> <<>>]
    /\ page = [c \in Conns |-> FreshPage]

NextRound ==
    \/ EndGameTimer /\ UNCHANGED auxVars
    \/ StartGameTimer /\ UNCHANGED auxVars

SpecRound == InitRound /\ [][NextRound]_vars

\* ------------------------------------------------- two players tapping
\* A started round: c1 joined as Alice, c2 as Bob, then the clock moved.
\* Both tap, the round ends, the next one starts (and clears the roster).
InitTaps ==
    /\ isActive = TRUE
    /\ players = MapSet(MapSet(EmptyMap, "p1", "Alice"), "p2", "Bob")
    /\ hashes = <<>>
    /\ startTime = 0
    /\ clients = [c \in Conns |-> [readyState |-> "OPEN",
                                   playerId |-> IF c = "c1" THEN "p1" ELSE "p2"]]
    /\ endTimers = 1
    /\ startTimers = 0
    /\ listening = TRUE
    /\ now \in Times
    /\ sent = <<>>
    /\ accepted = <<>>
    /\ tapsWhileActive = 0
    /\ newHashSent = 0
    /\ lastRoundEvent = "gameStart"
    /\ lastOp = Op("clock", NoWs)
    /\ digestIn = <<>>
    /\ zerosOut = -1
    /\ link = [c \in Conns |-> FreshLink]
    /\ seen = [c \in Conns |-> "none"]
    /\ isShuttingDown = FALSE
    /\ joinedSince = Conns
    /\ misses = [c \in Conns |-> 0]
    /\ sha = NoSha
    /\ twin = <<>>
    /\ lastMsg = NoMsg
    /\ health = NoHealth
    /\ feed = <<>>
    /\ inbox = [c \in Conns |-> <<>>]
    /\ page = [c \in Conns |-> FreshPage]

NextTaps ==
    \/ TapBudget(MaxTaps) /\ \E ws \in Conns, tapCount \in TapCounts, hash \in TapDigests :
                                  OnTap(ws, tapCount, hash) /\ UNCHANGED auxVars
    \/ EndGameTimer /\ UNCHANGED auxVars
    \/ StartGameTimer /\ UNCHANGED auxVars
    \/ Tick /\ UNCHANGED auxVars
    \/ ClockStepBack /\ UNCHANGED auxVars

SpecTaps == InitTaps /\ [][NextTaps]_vars

\* ------------------------------------------------- countLeadingZeros alone
StringsUpTo(n) == UNION { [1..len -> HexChars] : len \in 0..n }

InitDigest ==
    /\ InitGame
    /\ digestIn \in StringsUpTo(MaxDigestLen)
    /\ zerosOut = -1

CallCountLeadingZeros ==
    /\ zerosOut = -1
    /\ zerosOut' = countLeadingZeros(digestIn)
    /\ UNCHANGED << gameVars, clients, endTimers, startTimers, listening, now, sent,
                    lastOp, digestIn, link >>
    /\ UNCHANGED histVars

NextDigest == CallCountLeadingZeros /\ UNCHANGED auxVars

SpecDigest == InitDigest /\ [][NextDigest]_vars

\* ------------------------------------------------- connections and signals
\* Connections open, join and close while the rounds cycle; SIGTERM or SIGINT
\* may arrive at any moment.

\* history: the connections that sent join since they were opened
WatchJoined ==
    /\ joinedSince' = {c \in Conns : /\ clients'[c].readyState # "NONE"
                                      /\ lastOp' # Op("connection", c)
                                      /\ (c \in joinedSince \/ lastOp' = Op("join", c))}
    /\ UNCHANGED << seen, misses, sha, twin, lastMsg, pageVars >>

NextLife ==
    \/ Listen /\ WatchJoined /\ UNCHANGED isShuttingDown
    \/ EndGameTimer /\ WatchJoined /\ UNCHANGED isShuttingDown
    \/ StartGameTimer /\ WatchJoined /\ UNCHANGED isShuttingDown
    \/ \E ws \in Conns, playerId \in PlayerIds :
           OnConnection(ws, playerId) /\ WatchJoined /\ UNCHANGED isShuttingDown
    \/ \E ws \in Conns, playerName \in Names :
           OnJoin(ws, playerName) /\ WatchJoined /\ UNCHANGED isShuttingDown
    \/ \E ws \in Conns : OnClose(ws) /\ WatchJoined /\ UNCHANGED isShuttingDown
    \/ gracefulShutdown /\ WatchJoined

SpecLife == InitCycle /\ [][NextLife]_vars

\* ------------------------------------------------- the heartbeat
\* Connections open and close, answer pings or stop answering (the socket
\* fails, or the receiver is stuck), while the interval callback sweeps.

\* history: the sweeps an open connection went through since its last pong, or
\* since it was opened
WatchSweeps ==
    /\ misses' = [c \in Conns |->
                     IF clients'[c].readyState = "NONE" THEN 0
                     ELSE IF lastOp' \in {Op("connection", c), Op("pong", c)} THEN 0
                     ELSE IF lastOp'.op = "sweep" /\ clients[c].readyState = "OPEN"
                          THEN misses[c] + 1
                          ELSE misses[c]]
    /\ UNCHANGED << seen, isShuttingDown, joinedSince, sha, twin, lastMsg, pageVars >>

NextBeat ==
    \/ Listen /\ WatchSweeps
    \/ \E ws \in Conns, playerId \in PlayerIds : OnConnection(ws, playerId) /\ WatchSweeps
    \/ \E ws \in Conns : OnClose(ws) /\ WatchSweeps
    \/ Sweep /\ WatchSweeps
    \/ \E ws \in Conns : OnPong(ws) /\ WatchSweeps
    \/ \E ws \in Conns : OnUndecodable(ws) /\ WatchSweeps
    \/ \E ws \in Conns : SocketFail(ws) /\ WatchSweeps

SpecBeat == InitCycle /\ [][NextBeat]_vars

\* ------------------------------------------------- the health query
\* The round cycle with joins and closes under a wall clock that advances, is
\* set back or runs past the end of the round, and GET /health at any moment.
NextHealth ==
    \/ Listen /\ UNCHANGED auxVars
    \/ EndGameTimer /\ UNCHANGED auxVars
    \/ StartGameTimer /\ UNCHANGED auxVars
    \/ \E ws \in Conns, playerId \in PlayerIds : OnConnection(ws, playerId) /\ UNCHANGED auxVars
    \/ \E ws \in Conns, playerName \in Names : OnJoin(ws, playerName) /\ UNCHANGED auxVars
    \/ \E ws \in Conns : OnClose(ws) /\ UNCHANGED auxVars
    \/ Tick /\ UNCHANGED auxVars
    \/ now <= MaxTime /\ ClockStepBack /\ UNCHANGED auxVars
    \/ ClockStall /\ UNCHANGED auxVars
    \/ OnHealthGame

SpecHealth == Init /\ [][NextHealth]_vars

\* ------------------------------------------------- messages that lack a field
\* JSON.parse succeeds on a message without playerName or tapCount: the handler
\* reads data.playerName / data.tapCount as undefined.
JoinFields == Names \cup {Undefined}

\* history: the message the handler of this step was given
WatchMsg(m) ==
    /\ lastMsg' = m
    /\ UNCHANGED << seen, isShuttingDown, joinedSince, misses, sha, twin, pageVars >>

NextFields ==
    \/ Listen /\ WatchMsg(NoMsg)
    \/ EndGameTimer /\ WatchMsg(NoMsg)
    \/ StartGameTimer /\ WatchMsg(NoMsg)
    \/ \E ws \in Conns, playerId \in PlayerIds : OnConnection(ws, playerId) /\ WatchMsg(NoMsg)
    \/ \E ws \in Conns, playerName \in JoinFields :
           OnJoin(ws, playerName)
           /\ WatchMsg([type |-> "join", lacks |-> playerName = Undefined])
    \/ TapBudget(MaxFieldTaps) /\ \E ws \in Conns, tapCount \in TapCounts, hash \in TapDigests :
           OnTap(ws, tapCount, hash) /\ WatchMsg([type |-> "tap", lacks |-> FALSE])
    \/ TapBudget(MaxFieldTaps) /\ \E ws \in Conns, hash \in TapDigests :
           OnTap(ws, Undefined, hash) /\ WatchMsg([type |-> "tap", lacks |-> TRUE])
    \/ \E ws \in Conns : OnClose(ws) /\ WatchMsg(NoMsg)
    \/ \E ws \in Conns, payload \in OtherPayloads :
           OnOtherMessage(ws, payload) /\ WatchMsg([type |-> "other", lacks |-> FALSE])

SpecFields == InitCycle /\ [][NextFields]_vars

\* ------------------------------------------------- every kind of input
\* The round cycle under a moving clock with one client that connects, joins,
\* taps, answers pings and closes, the heartbeat, health queries and malformed
\* messages (undecodable, or lacking a field).
NextMsg ==
    \/ Listen /\ UNCHANGED auxVars
    \/ EndGameTimer /\ UNCHANGED auxVars
    \/ StartGameTimer /\ UNCHANGED auxVars
    \/ \E playerId \in PlayerIds : OnConnection(Client, playerId) /\ UNCHANGED auxVars
    \/ \E playerName \in JoinFields : OnJoin(Client, playerName) /\ UNCHANGED auxVars
    \/ TapBudget(MaxMsgTaps) /\ \E tapCount \in TapCounts, hash \in TapDigests :
                                     OnTap(Client, tapCount, hash) /\ UNCHANGED auxVars
    \/ TapBudget(MaxMsgTaps) /\ \E hash \in TapDigests :
                                     OnTap(Client, Undefined, hash) /\ UNCHANGED auxVars
    \/ OnClose(Client) /\ UNCHANGED auxVars
    \/ Sweep /\ UNCHANGED auxVars
    \/ OnPong(Client) /\ UNCHANGED auxVars
    \/ OnUndecodable(Client) /\ UNCHANGED auxVars
    \/ OnHealth /\ UNCHANGED auxVars
    \/ Tick /\ UNCHANGED auxVars

SpecMsg == Init /\ [][NextMsg]_vars

\* ------------------------------------------------- a round that fills up
\* From a started round with Alice and Bob: the client c1 taps with two
\* tapCount values and joins again under either name, connections close and
\* the heartbeat sweeps, until the round ends.

\* history: the tap message the handler of this step was given
WatchTap(tapCount) ==
    /\ lastMsg' = [type |-> "tap", lacks |-> FALSE, tapCount |-> tapCount]
    /\ UNCHANGED << seen, isShuttingDown, joinedSince, misses, sha, twin, pageVars >>

NextAppend ==
    \/ \E playerName \in JoinNames : OnJoin(Client, playerName) /\ WatchMsg(NoMsg)
    \/ TapBudget(MaxAppendTaps) /\ \E tapCount \in TwoTapCounts, hash \in TapDigests :
                                        OnTap(Client, tapCount, hash) /\ WatchTap(tapCount)
    \/ \E ws \in Conns : OnClose(ws) /\ WatchMsg(NoMsg)
    \/ Sweep /\ WatchMsg(NoMsg)
    \/ \E ws \in Conns : OnPong(ws) /\ WatchMsg(NoMsg)
    \/ EndGameTimer /\ WatchMsg(NoMsg)

SpecAppend == InitTaps /\ [][NextAppend]_vars

\* ------------------------------------------------- two runs, other tapCounts
\* The digest is a function of the text `${playerId}${timestamp}${data.tapCount}`:
\* sha is that function, fixed for the run, any function to the model.  The
\* second run receives the same messages at the same moments with tapCount
\* values of its own; its roster and round state are those of the first run,
\* its submissions are kept in twin.  One round, from its start to its end.
ShaInputs(t) == PlayerIds \X {t} \X TwoTapCounts

InitTwin ==
    /\ isActive = TRUE
    /\ players = MapSet(MapSet(EmptyMap, "p1", "Alice"), "p2", "Bob")
    /\ hashes = <<>>
    /\ startTime = 0
    /\ clients = [c \in Conns |-> [readyState |-> "OPEN",
                                   playerId |-> IF c = "c1" THEN "p1" ELSE "p2"]]
    /\ endTimers = 1
    /\ startTimers = 0
    /\ listening = TRUE
    /\ now \in Times
    /\ sent = <<>>
    /\ accepted = <<>>
    /\ tapsWhileActive = 0
    /\ newHashSent = 0
    /\ lastRoundEvent = "gameStart"
    /\ lastOp = Op("clock", NoWs)
    /\ digestIn = <<>>
    /\ zerosOut = -1
    /\ link = [c \in Conns |-> FreshLink]
    /\ seen = [c \in Conns |-> "none"]
    /\ isShuttingDown = FALSE
    /\ joinedSince = Conns
    /\ misses = [c \in Conns |-> 0]
    /\ sha \in [ShaInputs(now) -> TapDigests]
    /\ twin = <<>>
    /\ lastMsg = NoMsg
    /\ health = NoHealth
    /\ feed = <<>>
    /\ inbox = [c \in Conns |-> <<>>]
    /\ page = [c \in Conns |-> FreshPage]

\* case 'tap' in both runs: tapCount in the first, tapCountTwin in the second
TapTwin(ws, tapCount, tapCountTwin) ==
    LET playerId == clients[ws].playerId
        entry == [playerId   |-> playerId,
                  playerName |-> MapGet(players, playerId),
                  hash       |-> sha[<< playerId, now, tapCountTwin >>],
                  timestamp  |-> now,
                  tapCount   |-> tapCountTwin] IN
    /\ OnTap(ws, tapCount, sha[<< playerId, now, tapCount >>])
    /\ twin' = IF tapGate THEN Append(twin, entry) ELSE twin
    /\ UNCHANGED << seen, isShuttingDown, joinedSince, misses, sha, lastMsg, pageVars >>

\* endGame in both runs: the second run sorts its array as well
EndGameTwin ==
    /\ EndGameTimer
    /\ twin' = sortByTimestamp(twin)
    /\ UNCHANGED << seen, isShuttingDown, joinedSince, misses, sha, lastMsg, pageVars >>

NextTwin ==
    \/ \E ws \in Conns, playerName \in Names : OnJoin(ws, playerName) /\ UNCHANGED auxVars
    \/ TapBudget(MaxTwinTaps) /\ \E ws \in Conns, tapCount \in TwoTapCounts, tapCountTwin \in TwoTapCounts :
                                      TapTwin(ws, tapCount, tapCountTwin)
    \/ EndGameTwin

SpecTwin == InitTwin /\ [][NextTwin]_vars

\* ===================================================================== claims

\* observations shared by the claims
\* the length of the longest prefix of d that holds only the character "0"
ZeroPrefixLen(d) ==
    CHOOSE n \in 0..Len(d) :
        /\ \A i \in 1..n : d[i] = "0"
        /\ n < Len(d) => d[n + 1] # "0"
\* the first position of hs whose zero prefix is the longest of hs
FirstMaxIndex(hs) ==
    CHOOSE k \in 1..Len(hs) :
        /\ \A j \in 1..Len(hs) : ZeroPrefixLen(hs[j].hash) <= ZeroPrefixLen(hs[k].hash)
        /\ \A j \in 1..(k - 1) : ZeroPrefixLen(hs[j].hash) < ZeroPrefixLen(hs[k].hash)
\* the position entry j of hs takes when hs is sorted by timestamp, ties in order
Rank(hs, j) ==
    Cardinality({i \in 1..Len(hs) : hs[i].timestamp < hs[j].timestamp})
    + Cardinality({i \in 1..j : hs[i].timestamp = hs[j].timestamp})
\* messages that reached at least one client
TypesDelivered(msgs) == {msgs[i].msg.type : i \in {x \in DOMAIN msgs : msgs[x].to # {}}}
IsStartOp(o) == o.op \in {"listen", "startNewGame"}
TypesSent(msgs) == {msgs[i].msg.type : i \in DOMAIN msgs}
\* ------------------------------------------------- the page of one client
\* The round cycle under a moving clock with the page of one browser (the
\* second TapMinerGame class of public/game.js) on connection Client: the user
\* clicks join once, taps, the connection may close and is reopened by the
\* page's reconnect timer.  Messages the server writes wait in inbox until
\* onmessage runs.

\* the identity the server draws for the connection joinGame makes, and for
\* the connections the reconnect timer makes
FirstId == "p1"
LaterId == "p2"
\* the digest the tap handler computes in SpecClient
PageDigest == <<"0","0","a","b","0","0">>

\* startGame(startTime, duration) of the page
pageStartGame(p, start, d) ==
    [p EXCEPT !.gameActive = TRUE, !.gameEndTime = start + d, !.tapCount = 0]

\* faulty variant: this.gameActive = false is missing
pageEndGame_StaysActive(p) == p

\* endGame(winner) of the page
pageEndGame(p) == [p EXCEPT !.gameActive = FALSE]

\* handleServerMessage(message): the cases that change the fields modelled
handleServerMessage(p, message) ==
    CASE message.type = "joined" ->
            LET q == [p EXCEPT !.gameActive = message.gameActive] IN
            IF message.gameActive
            THEN pageStartGame(q, message.startTime, message.duration)
            ELSE q
      [] message.type = "gameStart" -> pageStartGame(p, message.startTime, pageDuration)
      [] message.type = "gameEnd" -> pageEndGame(p)
      [] OTHER -> p

\* the message types whose case in handleServerMessage changes those fields
PageEvents == {"joined", "gameStart", "gameEnd"}

\* the messages just written that reach the page of connection c
Delivered(c) ==
    SelectSeq(sent', LAMBDA m : m.msg.type \in PageEvents /\ c \in Reached(m.to))

\* the fields of a message those cases read (-1: the message has no such field)
PageView(m) ==
    [type       |-> m.type,
     gameActive |-> IF m.type = "joined" THEN m.gameActive ELSE FALSE,
     startTime  |-> IF m.type \in {"joined", "gameStart"} THEN m.startTime ELSE -1,
     duration   |-> IF m.type = "joined" THEN m.duration ELSE -1]

\* the network hands the messages to the page in the order they were written
WatchInbox ==
    /\ inbox' = [c \in Conns |->
                    inbox[c] \o [i \in 1..Len(Delivered(c)) |-> PageView(Delivered(c)[i].msg)]]
    /\ joinedSince' = {c \in Conns : /\ clients'[c].readyState # "NONE"
                                      /\ lastOp' # Op("connection", c)
                                      /\ (c \in joinedSince \/ lastOp' = Op("join", c))}
    /\ UNCHANGED << seen, isShuttingDown, misses, sha, twin, lastMsg, health, feed >>

\* at most MaxInbox messages wait at a page
InboxRoom == \A c \in Conns : Len(inbox[c]) < MaxInbox

\* a step of the page alone: nothing reaches the server
PageOnly(name, c) ==
    /\ sent' = <<>>
    /\ lastOp' = Op(name, c)
    /\ UNCHANGED << gameVars, clients, endTimers, startTimers, listening, now, link >>
    /\ UNCHANGED histVars
    /\ UNCHANGED unitVars
    /\ UNCHANGED << seen, isShuttingDown, joinedSince, misses, sha, twin, lastMsg,
                    health, feed >>

\* joinGame(): connectWebSocket(), then this.ws.onopen = () => send join
ClientJoinGame(c, playerId) ==
    /\ page[c].stage = "login"
    /\ OnConnection(c, playerId)
    /\ page' = [page EXCEPT ![c].stage = "joinOnOpen"]
    /\ WatchInbox

\* the onopen handler joinGame installed: the join message, handled by the server
ClientOpenJoin(c, playerName) ==
    /\ page[c].stage = "joinOnOpen"
    /\ InboxRoom
    /\ OnJoin(c, playerName)
    /\ page' = [page EXCEPT ![c].stage = "open", ![c].joins = @ + 1]
    /\ WatchInbox

\* the onopen handler connectWebSocket installed: console.log only
ClientOpenLog(c) ==
    /\ page[c].stage = "logOnOpen"
    /\ clients[c].readyState = "OPEN"
    /\ page' = [page EXCEPT ![c].stage = "open"]
    /\ PageOnly("onopen", c)
    /\ UNCHANGED inbox

\* ws.onmessage: JSON.parse, handleServerMessage
ClientReceive(c) ==
    /\ inbox[c] # <<>>
    /\ page' = [page EXCEPT ![c] = handleServerMessage(page[c], Head(inbox[c]))]
    /\ inbox' = [inbox EXCEPT ![c] = Tail(inbox[c])]
    /\ PageOnly("onmessage", c)

\* faulty variant: if (!this.gameActive) return is missing
handleTapGate_Always(p) == TRUE

\* the condition under which handleTap goes on
handleTapGate(p) == p.gameActive

\* handleTap(): this.tapCount++, the tap message, handled by the server
ClientTap(c, hash) ==
    /\ handleTapGate(page[c])
    /\ page[c].tapCount < MaxClientTaps
    /\ OnTap(c, page[c].tapCount + 1, hash)
    /\ page' = [page EXCEPT ![c].tapCount = @ + 1]
    /\ WatchInbox

\* the connection closes: 'close' at the server, onclose at the page, which
\* sets the timer that calls connectWebSocket()
ClientClose(c) ==
    /\ OnClose(c)
    /\ page' = [page EXCEPT ![c].stage = "closed"]
    /\ WatchInbox

\* the reconnect timer: connectWebSocket()
ClientReconnect(c, playerId) ==
    /\ page[c].stage = "closed"
    /\ OnConnection(c, playerId)
    /\ page' = [page EXCEPT ![c].stage = "logOnOpen"]
    /\ WatchInbox

NextClient ==
    \/ Listen /\ UNCHANGED page /\ WatchInbox
    \/ InboxRoom /\ EndGameTimer /\ UNCHANGED page /\ WatchInbox
    \/ InboxRoom /\ StartGameTimer /\ UNCHANGED page /\ WatchInbox
    \/ ClientJoinGame(Client, FirstId)
    \/ \E playerName \in Names : ClientOpenJoin(Client, playerName)
    \/ ClientOpenLog(Client)
    \/ ClientReceive(Client)
    \/ TapBudget(MaxClientTaps) /\ ClientTap(Client, PageDigest)
    \/ ClientClose(Client)
    \/ ClientReconnect(Client, LaterId)
    \/ Tick /\ UNCHANGED auxVars

SpecClient == InitCycle /\ [][NextClient]_vars

\* ------------------------------------------------- the live feed of a round
\* Two joined players tap under a clock that only moves forward; digests with
\* and without leading zeros; the round ends and the next one starts.

\* the newHash messages among the messages just written
NewHashes == SelectSeq(sent', LAMBDA m : m.msg.type = "newHash")

\* history: the newHash messages broadcast since the last gameStart
WatchFeed ==
    /\ feed' = IF IsStartOp(lastOp') THEN <<>>
               ELSE feed \o [i \in 1..Len(NewHashes) |-> NewHashes[i].msg]
    /\ UNCHANGED << seen, isShuttingDown, joinedSince, misses, sha, twin, lastMsg,
                    health, inbox, page >>

NextFeed ==
    \/ TapBudget(MaxFeedTaps) /\ \E ws \in Conns, tapCount \in TapCounts, hash \in FeedDigests :
                                      OnTap(ws, tapCount, hash) /\ WatchFeed
    \/ EndGameTimer /\ WatchFeed
    \/ StartGameTimer /\ WatchFeed
    \/ Tick /\ WatchFeed

SpecFeed == InitTaps /\ [][NextFeed]_vars

GameEndSent == lastOp.op = "endGame" /\ Len(sent) = 1 /\ sent[1].msg.type = "gameEnd"

\* C1 - Gate enforcement: a tap handled while isActive is false appends no
\* submission, emits no newHash (nothing at all), and leaves the roster, the
\* start timestamp and the active flag as they were.
C1_GateEnforcement ==
    [][ (lastOp'.op = "tap" /\ ~isActive) =>
            /\ hashes' = hashes
            /\ "newHash" \notin TypesSent(sent')
            /\ players' = players
            /\ startTime' = startTime
            /\ isActive' = isActive ]_vars

\* C1 witness: a tap was handled during the pause after a round that recorded
\* submissions, and nothing was sent for it.
C1_Witness ==
    /\ lastOp.op = "tap"
    /\ ~isActive
    /\ lastRoundEvent = "gameEnd"
    /\ Len(hashes) > 0
    /\ sent = <<>>

\* C4 - A round that ends without any accepted submission produces a gameEnd
\* whose winner is null and whose allHashes is empty.
C4_EmptyRound ==
    (lastOp.op = "endGame" /\ accepted = <<>>) =>
        /\ Len(sent) = 1
        /\ sent[1].msg.type = "gameEnd"
        /\ sent[1].msg.winner = NoWinner
        /\ sent[1].msg.allHashes = <<>>

\* C4 witness: a round without submissions has just ended with clients listening.
C4_Witness ==
    /\ GameEndSent
    /\ accepted = <<>>
    /\ sent[1].to # {}
    /\ sent[1].msg.winner = NoWinner

\* C5 - End-to-end accounting: the length of gameEnd.allHashes equals the
\* number of taps handled while the round was active and the number of newHash
\* broadcasts since the round's gameStart; during the round the array length
\* equals both counts as well.
C5_Accounting ==
    /\ (isActive \/ lastOp.op = "endGame") =>
            /\ Len(hashes) = tapsWhileActive
            /\ Len(hashes) = newHashSent
    /\ lastOp.op = "endGame" =>
            /\ Len(sent) = 1
            /\ sent[1].msg.type = "gameEnd"
            /\ Len(sent[1].msg.allHashes) = tapsWhileActive
            /\ Len(sent[1].msg.allHashes) = newHashSent

\* C5 witness: Alice tapped once and Bob twice before the round ended, and
\* gameEnd.allHashes has length 3.
C5_Witness ==
    /\ GameEndSent
    /\ Len(sent[1].msg.allHashes) = 3
    /\ tapsWhileActive = 3
    /\ Cardinality({i \in 1..3 : hashes[i].playerName = "Alice"}) = 1
    /\ Cardinality({i \in 1..3 : hashes[i].playerName = "Bob"}) = 2

\* C9 - No double start: startNewGame never runs while isActive is true, at
\* most one round timer (endGame or startNewGame) is pending, and gameStart and
\* gameEnd broadcasts alternate, beginning with gameStart.
C9_NoDoubleStart ==
    [][ /\ endTimers' + startTimers' <= 1
        /\ IsStartOp(lastOp') => (~isActive /\ lastRoundEvent \in {"none", "gameEnd"})
        /\ lastOp'.op = "endGame" => lastRoundEvent = "gameStart" ]_vars

\* C9 witness: a second round has been started by the timer of endGame.
C9_Witness ==
    /\ lastOp.op = "startNewGame"
    /\ isActive
    /\ endTimers = 1
    /\ startTimers = 0

\* C10 - startNewGame postcondition: right after it the roster and the
\* submission array are empty, isActive is true, startTime is the current time
\* and one gameStart carrying that startTime was broadcast to the open clients.
C10_StartPostcondition ==
    IsStartOp(lastOp) =>
        /\ players = EmptyMap
        /\ hashes = <<>>
        /\ isActive
        /\ startTime = now
        /\ sent = << [to |-> OpenClients,
                      msg |-> [type |-> "gameStart", startTime |-> startTime]] >>

\* C10 witness: a later round was started while both clients were connected.
C10_Witness ==
    /\ lastOp.op = "startNewGame"
    /\ lastRoundEvent = "gameStart"
    /\ Len(sent) = 1
    /\ sent[1].to = Conns
    /\ startTime = MaxTime

\* C8 - Round cycle liveness: with the timers firing, every started round
\* ends and every ended round is followed by a new one.
C8_RoundCycle ==
    /\ isActive ~> (lastOp.op = "endGame" /\ ~isActive)
    /\ (listening /\ ~isActive) ~> (IsStartOp(lastOp) /\ isActive)

\* C8 witness: a full cycle has run: a round ended and the next one started.
C8_Witness ==
    /\ lastOp.op = "startNewGame"
    /\ isActive
    /\ lastRoundEvent = "gameStart"

\* C2 - Winner rule: the winner of a round with submissions is the first
\* submission, in the timestamp-sorted sequence, whose leading-zero count is the
\* maximum of the round; a later submission with the same count does not
\* replace it.
C2_WinnerRule ==
    (lastOp.op = "endGame" /\ accepted # <<>>) =>
        /\ Len(sent) = 1
        /\ sent[1].msg.type = "gameEnd"
        /\ Len(sent[1].msg.allHashes) = Len(accepted)
        /\ sent[1].msg.winner # NoWinner
        /\ LET all == sent[1].msg.allHashes
               w   == sent[1].msg.winner
               k   == FirstMaxIndex(all) IN
           /\ w.playerId = all[k].playerId
           /\ w.hash = all[k].hash
           /\ w.leadingZeros = ZeroPrefixLen(all[k].hash)
           /\ \A j \in 1..Len(all) : ZeroPrefixLen(all[j].hash) <= w.leadingZeros

\* C2 witness: the sorted counts are [2, 5, 5, 3], the two fives are different
\* digests, and the winner is the one at index 1 (position 2 here).
C2_Witness ==
    /\ GameEndSent
    /\ Len(sent[1].msg.allHashes) = 4
    /\ [i \in 1..4 |-> ZeroPrefixLen(sent[1].msg.allHashes[i].hash)] = <<2, 5, 5, 3>>
    /\ sent[1].msg.allHashes[2].hash # sent[1].msg.allHashes[3].hash
    /\ sent[1].msg.winner.hash = sent[1].msg.allHashes[2].hash

\* C3 - Time-sort: gameEnd.allHashes is the round's submissions ordered by
\* timestamp ascending, equal timestamps in insertion order, and the winner is
\* the first maximum of that sorted sequence.
C3_TimeSort ==
    lastOp.op = "endGame" =>
        /\ Len(sent) = 1
        /\ sent[1].msg.type = "gameEnd"
        /\ LET all == sent[1].msg.allHashes IN
           /\ Len(all) = Len(accepted)
           /\ \A j \in 1..Len(accepted) : all[Rank(accepted, j)] = accepted[j]
           /\ \A i, j \in 1..Len(all) : i < j => all[i].timestamp <= all[j].timestamp
           /\ hashes = all
           /\ accepted # <<>> =>
                 /\ sent[1].msg.winner # NoWinner
                 /\ sent[1].msg.winner.hash = all[FirstMaxIndex(all)].hash

\* C3 witness: the submissions were inserted out of timestamp order, two
\* different ones carry the same timestamp, and scanning the insertion order
\* would have chosen another winner.
C3_Witness ==
    /\ GameEndSent
    /\ accepted # <<>>
    /\ sent[1].msg.allHashes # accepted
    /\ \E i, j \in 1..Len(accepted) :
          /\ i < j
          /\ accepted[i].timestamp = accepted[j].timestamp
          /\ accepted[i].hash # accepted[j].hash
    /\ sent[1].msg.winner.hash # accepted[FirstMaxIndex(accepted)].hash

\* C6 - Idempotent removal: closing a connection whose identity is in the
\* roster emits one playerLeft with the previous roster size minus one; closing
\* one whose identity is not in the roster changes nothing and no client
\* receives a playerLeft.
C6_IdempotentRemoval ==
    [][ lastOp'.op = "close" =>
            LET id == clients[lastOp'.ws].playerId IN
            IF id \in DOMAIN players
            THEN /\ players' = MapDelete(players, id)
                 /\ Len(sent') = 1
                 /\ sent'[1].msg.type = "playerLeft"
                 /\ sent'[1].msg.playerCount = MapSize(players) - 1
            ELSE /\ players' = players
                 /\ "playerLeft" \notin TypesDelivered(sent') ]_vars

\* C7 - countLeadingZeros returns the index of the first character other than
\* "0", or the length when there is none; the result lies in 0..Len(digest).
C7_CountLeadingZeros ==
    zerosOut # -1 =>
        /\ zerosOut \in 0..Len(digestIn)
        /\ \A i \in 1..zerosOut : digestIn[i] = "0"
        /\ zerosOut < Len(digestIn) => digestIn[zerosOut + 1] # "0"

\* C7 witness: "0003ab" gives 3.
C7_Witness ==
    /\ digestIn = <<"0", "0", "0", "3", "a", "b">>
    /\ zerosOut = 3

\* the connections whose readyState is OPEN once the handler has run
OpenAfter == {c \in Conns : clients'[c].readyState = "OPEN"}

\* C11 - joinPlayer: a join is handled the same way in every phase: the roster
\* entry of the connection's identity becomes the supplied name, no other entry
\* changes, the roster grows by one only when the identity was absent, and the
\* playerJoined written to all open connections carries the new roster size.
C11_JoinAccepted ==
    [][ lastOp'.op = "join" =>
            LET id == clients[lastOp'.ws].playerId
                pj == sent'[Len(sent')] IN
            /\ pj.msg.type = "playerJoined"
            /\ pj.msg.playerId = id
            /\ pj.to = OpenAfter
            /\ DOMAIN players' = DOMAIN players \cup {id}
            /\ players'[id] = pj.msg.playerName
            /\ \A k \in DOMAIN players \ {id} : players'[k] = players[k]
            /\ Cardinality(DOMAIN players') =
                   Cardinality(DOMAIN players) + (IF id \in DOMAIN players THEN 0 ELSE 1)
            /\ pj.msg.playerCount = Cardinality(DOMAIN players')
            /\ << isActive', hashes', startTime', endTimers', startTimers' >>
                   = << isActive, hashes, startTime, endTimers, startTimers >> ]_vars

\* C11 witness: during the pause between two rounds both connections share one
\* identity; the second joined as Bob over the entry Alice, and the roster still
\* has one entry.
C11_Witness ==
    /\ lastOp.op = "join"
    /\ ~isActive
    /\ lastRoundEvent = "gameEnd"
    /\ clients["c1"].playerId = clients["c2"].playerId
    /\ Len(sent) = 2
    /\ sent[2].msg.playerName = "Bob"
    /\ sent[2].msg.playerCount = 1
    /\ sent[2].to = Conns
    /\ players = MapSet(EmptyMap, clients["c1"].playerId, "Bob")

\* C12 - Targeted join acknowledgment: a join writes joined to the joining
\* connection and to no other, then playerJoined for the same identity to every
\* open connection, the joining one included; no other handler writes joined.
C12_TargetedAck ==
    [][ /\ lastOp'.op = "join" =>
              /\ Len(sent') = 2
              /\ sent'[1].msg.type = "joined"
              /\ sent'[1].to = {lastOp'.ws}
              /\ sent'[2].msg.type = "playerJoined"
              /\ sent'[2].msg.playerId = sent'[1].msg.playerId
              /\ sent'[2].to = OpenAfter
              /\ lastOp'.ws \in sent'[2].to
        /\ lastOp'.op # "join" => "joined" \notin TypesSent(sent') ]_vars

\* C12 witness: c1 joined while c2 was open: joined went to c1 alone,
\* playerJoined to both, in that order.
C12_Witness ==
    /\ lastOp = Op("join", "c1")
    /\ isActive
    /\ Len(sent) = 2
    /\ sent[1].msg.type = "joined"
    /\ sent[1].to = {"c1"}
    /\ sent[2].msg.type = "playerJoined"
    /\ sent[2].to = {"c1", "c2"}
    /\ Reached(sent[2].to) = {"c1", "c2"}

\* C13 - Join snapshot, as claimed: the joined reply carries the connection's
\* identity, the active flag, the start timestamp of the round started last, the
\* fixed duration and the current player count.
C13_JoinSnapshot ==
    lastOp.op = "join" =>
        /\ Len(sent) = 2
        /\ sent[1].msg.type = "joined"
        /\ sent[1].msg.playerId = clients[lastOp.ws].playerId
        /\ sent[1].msg.gameActive = isActive
        /\ sent[1].msg.startTime = startTime
        /\ sent[1].msg.duration = duration
        /\ "playerCount" \in DOMAIN sent[1].msg
        /\ sent[1].msg.playerCount = MapSize(players)

\* C13 amended - the joined reply carries exactly the identity, the active flag,
\* the start timestamp and the fixed duration, as they are when the join is
\* handled; the start timestamp is the one of the latest gameStart (only
\* startNewGame writes gameState.startTime, and it broadcasts that value); the
\* player count is not in the reply, it reaches the joining connection in the
\* playerJoined written right after it.
C13_JoinSnapshotAmended ==
    [][ /\ IsStartOp(lastOp') =>
              /\ Len(sent') = 1
              /\ sent'[1].msg.type = "gameStart"
              /\ sent'[1].msg.startTime = startTime'
        /\ ~IsStartOp(lastOp') => startTime' = startTime
        /\ lastOp'.op = "join" =>
              /\ Len(sent') = 2
              /\ DOMAIN sent'[1].msg =
                     {"type", "playerId", "gameActive", "startTime", "duration"}
              /\ sent'[1].msg.type = "joined"
              /\ sent'[1].to = {lastOp'.ws}
              /\ sent'[1].msg.playerId = clients[lastOp'.ws].playerId
              /\ sent'[1].msg.gameActive = isActive
              /\ sent'[1].msg.startTime = startTime
              /\ sent'[1].msg.duration = duration
              /\ sent'[2].msg.type = "playerJoined"
              /\ lastOp'.ws \in sent'[2].to
              /\ sent'[2].msg.playerCount = MapSize(players') ]_vars

\* C13 witness: a second player joined during the pause, later than the round
\* started: the reply says inactive and carries the old start timestamp.
C13_Witness ==
    /\ lastOp.op = "join"
    /\ lastRoundEvent = "gameEnd"
    /\ Len(sent) = 2
    /\ sent[1].msg.gameActive = FALSE
    /\ sent[1].msg.startTime = startTime
    /\ sent[1].msg.startTime # now
    /\ sent[2].msg.playerCount = 2

\* the identities of the connections in wss.clients
ConnectedIds == {clients[c].playerId : c \in {x \in Conns : clients[x].readyState # "NONE"}}

\* C14 - removePlayer frame: a close leaves the submission array as it is: in
\* an active round the array holds every accepted submission, and gameEnd
\* carries each of them, whoever is still connected; the winner is the first
\* maximum among all of them.
C14_RemoveFrame ==
    /\ isActive => hashes = accepted
    /\ lastOp.op = "endGame" =>
          /\ Len(sent) = 1
          /\ sent[1].msg.type = "gameEnd"
          /\ Len(sent[1].msg.allHashes) = Len(accepted)
          /\ \A j \in 1..Len(accepted) :
                 \E k \in 1..Len(accepted) : sent[1].msg.allHashes[k] = accepted[j]
          /\ accepted # <<>> =>
                 /\ sent[1].msg.winner # NoWinner
                 /\ sent[1].msg.winner.playerId =
                        sent[1].msg.allHashes[FirstMaxIndex(sent[1].msg.allHashes)].playerId

\* C14 witness: Alice joined, tapped and closed her connection during the
\* round; the round ended with her submission in allHashes and as the winner.
C14_Witness ==
    /\ GameEndSent
    /\ Len(sent[1].msg.allHashes) = 1
    /\ sent[1].msg.allHashes[1].playerName = "Alice"
    /\ sent[1].msg.allHashes[1].playerId \notin ConnectedIds
    /\ sent[1].msg.allHashes[1].playerId \notin DOMAIN players
    /\ sent[1].msg.winner # NoWinner
    /\ sent[1].msg.winner.playerId = sent[1].msg.allHashes[1].playerId

\* C15 - Winner display name: the name in gameEnd.winner is the name cached in
\* the winning submission when it was made.
C15_WinnerName ==
    (lastOp.op = "endGame" /\ accepted # <<>>) =>
        /\ Len(sent) = 1
        /\ sent[1].msg.type = "gameEnd"
        /\ sent[1].msg.winner # NoWinner
        /\ sent[1].msg.winner.playerName =
               sent[1].msg.allHashes[FirstMaxIndex(sent[1].msg.allHashes)].playerName

IsCloseOp(o) == o.op \in {"close", "closeTerminated"}

\* C16 - Heartbeat timeout equals disconnect: the sweep terminates exactly the
\* connections that did not answer the last ping and changes nothing of the
\* round; a terminated connection leaves wss.clients only through the 'close'
\* handler, and that handler does the same for it as for an open connection:
\* the identity leaves the roster, playerLeft with the new roster size goes to
\* the other open connections, and the active flag, the timers and the
\* submissions stay as they are.
C16_HeartbeatClose ==
    [][ /\ lastOp'.op = "sweep" =>
              /\ << isActive', players', hashes', startTime', endTimers', startTimers' >>
                     = << isActive, players, hashes, startTime, endTimers, startTimers >>
              /\ sent' = <<>>
              /\ \A c \in Conns :
                     IF clients[c].readyState # "NONE" /\ ~link[c].isAlive
                     THEN clients'[c] = [readyState |-> "CLOSING",
                                         playerId   |-> clients[c].playerId]
                     ELSE clients'[c] = clients[c]
        /\ \A c \in Conns :
               (clients[c].readyState = "CLOSING" /\ clients'[c] # clients[c]) =>
                   lastOp' = Op("closeTerminated", c)
        /\ IsCloseOp(lastOp') =>
              /\ clients'[lastOp'.ws].readyState = "NONE"
              /\ DOMAIN players' = DOMAIN players \ {clients[lastOp'.ws].playerId}
              /\ \A k \in DOMAIN players' : players'[k] = players[k]
              /\ sent' = << [to  |-> {c \in Conns \ {lastOp'.ws} :
                                          clients[c].readyState = "OPEN"},
                             msg |-> [type        |-> "playerLeft",
                                      playerId    |-> clients[lastOp'.ws].playerId,
                                      playerCount |-> Cardinality(DOMAIN players')]] >>
              /\ << isActive', hashes', startTime', endTimers', startTimers' >>
                     = << isActive, hashes, startTime, endTimers, startTimers >> ]_vars

\* C16 witness: c1 did not answer a ping, the next sweep terminated it, and
\* during an active round its 'close' handler wrote playerLeft with the roster
\* size 1 (c2, who joined) to c2.
C16_Witness ==
    /\ lastOp = Op("closeTerminated", "c1")
    /\ isActive
    /\ clients["c2"].readyState = "OPEN"
    /\ MapSize(players) = 1
    /\ clients["c2"].playerId \in DOMAIN players
    /\ Len(sent) = 1
    /\ sent[1].to = {"c2"}
    /\ sent[1].msg.type = "playerLeft"
    /\ sent[1].msg.playerId \notin DOMAIN players
    /\ sent[1].msg.playerCount = 1

\* C17 - broadcastAll: every message a handler writes, the targeted joined
\* apart, is written once, to each connection whose readyState is OPEN and to
\* no other; connections that are closing are passed over and the others are
\* still written to.
C17_BroadcastOpenOnly ==
    [][ \A i \in DOMAIN sent' :
            sent'[i].msg.type # "joined" =>
                /\ sent'[i].to = OpenAfter
                /\ \A c \in sent'[i].to : clients[c].readyState = "OPEN"
                /\ \A j \in DOMAIN sent' :
                       sent'[j].msg.type = sent'[i].msg.type => j = i ]_vars

\* C17 witness: gameStart was broadcast while c1 was terminated but not yet
\* closed: it was written to c2 only.
C17_Witness ==
    /\ lastOp.op = "startNewGame"
    /\ clients["c1"].readyState = "CLOSING"
    /\ clients["c2"].readyState = "OPEN"
    /\ Len(sent) = 1
    /\ sent[1].msg.type = "gameStart"
    /\ sent[1].to = {"c2"}

\* C18 - Per-destination ordering: each handler's messages are written to a
\* socket in the order the handler emitted them, one handler after the other.
\* A newHash reaches a connection only between a gameStart and the gameEnd
\* that follows it: never when the last round event the connection received is
\* a gameEnd, and never while the last round event emitted is not a gameStart;
\* the round events a connection receives alternate.
C18_PerDestinationOrder ==
    [][ \A c \in Conns : \A i \in DOMAIN sent' :
            c \in Reached(sent'[i].to) =>
                /\ sent'[i].msg.type = "newHash" =>
                       /\ seen[c] # "gameEnd"
                       /\ lastRoundEvent = "gameStart"
                       /\ lastRoundEvent' = "gameStart"
                       /\ hashes' # <<>>
                       /\ hashes'[Len(hashes')].hash = sent'[i].msg.hash
                /\ sent'[i].msg.type = "gameEnd" => seen[c] # "gameEnd"
                /\ sent'[i].msg.type = "gameStart" => seen[c] # "gameStart" ]_vars

\* C18 witness: in a later round c1, open since before the round's gameStart,
\* and c2, connected during the round, both received a newHash.
C18_Witness ==
    /\ lastOp.op = "tap"
    /\ Len(sent) = 1
    /\ sent[1].msg.type = "newHash"
    /\ Reached(sent[1].to) = {"c1", "c2"}
    /\ seen["c1"] = "gameStart"
    /\ seen["c2"] = "none"

\* the open connections whose socket no longer carries what is written to it
FailedOpen == {c \in Conns : clients[c].readyState = "OPEN" /\ link[c].socket = "failed"}

C20_UndecodableDiscarded ==
    [][ lastOp'.op = "undecodable" =>
            /\ << isActive', players', hashes', startTime', endTimers', startTimers' >>
                   = << isActive, players, hashes, startTime, endTimers, startTimers >>
            /\ sent' = <<>>
            /\ clients'[lastOp'.ws].readyState = "OPEN"
            /\ link'[lastOp'.ws].receiver = "ok" ]_vars

\* C21: a decodable join message without playerName, or a tap message without
\* tapCount, is discarded: the handler writes no roster entry, appends no
\* submission and emits no joined, playerJoined or newHash event.
C21_MissingFieldDiscarded ==
    [][ lastMsg'.type \in {"join", "tap"} /\ lastMsg'.lacks =>
          /\ players' = players
          /\ hashes' = hashes
          /\ TypesSent(sent') \cap {"joined", "playerJoined", "newHash"} = {} ]_vars

\* C22: once graceful shutdown has begun the pending endRound timer is
\* cancelled: the step that handles the first signal leaves no endGame timer
\* pending, and no gameEnd and no gameStart is emitted after it.
C22_ShutdownCancelsTimer ==
    [][ /\ lastOp'.op = "signal" => endTimers' = 0
        /\ isShuttingDown => TypesSent(sent') \cap {"gameEnd", "gameStart"} = {} ]_vars

\* C23: the step that handles the first shutdown signal writes one system
\* message to every connection that is open at that moment, and no other step
\* writes a system message.
C23_ShutdownNotice ==
    [][ /\ lastOp'.op = "signal" =>
              \A c \in OpenClients :
                  Cardinality({i \in DOMAIN sent' : /\ sent'[i].msg.type = "system"
                                                    /\ c \in sent'[i].to}) = 1
        /\ "system" \in TypesSent(sent') => lastOp'.op = "signal" ]_vars

\* the events of a round
RoundEventTypes == {"gameStart", "newHash", "gameEnd", "playerJoined", "playerLeft"}

\* C24: a round event is delivered only to connections that are open and have
\* sent join since they were opened: none reaches a connection that was lost
\* and not re-established, none reaches one that has not joined since.
C24_JoinedOnlyDelivery ==
    [][ \A i \in DOMAIN sent', c \in Conns :
            (sent'[i].msg.type \in RoundEventTypes /\ c \in Reached(sent'[i].to)) =>
                /\ clients'[c].readyState = "OPEN"
                /\ c \in joinedSince' ]_vars

\* C24 as amended: a round event is delivered only to connections that are
\* open, and it is written to every connection that is open, whether or not
\* the connection has sent join since it was opened.
C24_OpenOnlyDelivery ==
    [][ \A i \in DOMAIN sent', c \in Conns :
            sent'[i].msg.type \in RoundEventTypes =>
                /\ c \in Reached(sent'[i].to) =>
                       clients[c].readyState = "OPEN" /\ clients'[c].readyState = "OPEN"
                /\ (clients'[c].readyState = "OPEN" /\ c \notin joinedSince') =>
                       c \in sent'[i].to ]_vars

\* C24 witness: c1 is open and has not sent join since it was opened, the
\* roster holds the other connection only; the gameEnd of the round was
\* delivered to c1.
C24_Witness ==
    /\ GameEndSent
    /\ clients["c1"].readyState = "OPEN"
    /\ "c1" \notin joinedSince
    /\ "c1" \in Reached(sent[1].to)
    /\ clients["c1"].playerId \notin DOMAIN players
    /\ players # EmptyMap

\* the registered connections hold pairwise different identities
DistinctIds(cs) ==
    \A a, b \in Conns :
        (a # b /\ cs[a].readyState # "NONE" /\ cs[b].readyState # "NONE") =>
            cs[a].playerId # cs[b].playerId

\* closing ws left the roster entry of every other registered connection alone
OthersKept(ws) ==
    \A c \in Conns \ {ws} :
        (clients[c].readyState # "NONE" /\ clients[c].playerId \in DOMAIN players) =>
            /\ clients[c].playerId \in DOMAIN players'
            /\ players'[clients[c].playerId] = players[clients[c].playerId]

\* C25: the identity issued to a new connection differs from the identity of
\* every registered connection; no two registered connections share an
\* identity; closing a connection removes no other connection's roster entry.
C25_IdentityFreshness ==
    [][ /\ \A ws \in Conns :
              (lastOp' = Op("connection", ws) /\ clients[ws].readyState = "NONE") =>
                  clients'[ws].playerId \notin ConnectedIds
        /\ DistinctIds(clients')
        /\ \A ws \in Conns :
              (IsCloseOp(lastOp') /\ lastOp'.ws = ws /\ clients[ws].readyState # "NONE") =>
                  OthersKept(ws) ]_vars

\* C25 as amended: while the registered connections hold pairwise different
\* identities, closing a connection removes no other connection's roster entry.
C25_DistinctIdsKept ==
    [][ \A ws \in Conns :
            (/\ IsCloseOp(lastOp') /\ lastOp'.ws = ws
             /\ clients[ws].readyState # "NONE"
             /\ DistinctIds(clients)) => OthersKept(ws) ]_vars

\* C25 witness: c1 and c2 joined under different identities, c1 closed, the
\* roster entry of c2 is in place.
C25_Witness ==
    /\ lastOp = Op("close", "c1")
    /\ clients["c2"].readyState = "OPEN"
    /\ "c2" \in joinedSince
    /\ clients["c2"].playerId \in DOMAIN players
    /\ MapSize(players) = 1

\* the steps driven by the round timers: the server.listen callback and the
\* setTimeout callbacks of startNewGame and endGame
TimerOps == {"listen", "startNewGame", "endGame"}

\* C26: gameState.isActive and gameState.startTime are changed by the timer
\* driven startNewGame and endGame steps only: a join, tap, close, heartbeat
\* sweep, pong, health query or malformed message leaves both as they are.  A
\* round that is active has its endGame timer pending and becomes inactive in
\* the step that consumes that timer, in no other.
C26_NoEarlyAbort ==
    [][ /\ lastOp'.op \notin TimerOps =>
              isActive' = isActive /\ startTime' = startTime
        /\ startTime' # startTime => lastOp'.op \in {"listen", "startNewGame"}
        /\ (isActive /\ ~isActive') =>
              lastOp'.op = "endGame" /\ endTimers' = endTimers - 1
        /\ isActive' => endTimers' > 0 ]_vars

\* C26 witness: a round started at 0 holds a submission; the clock moved on,
\* the client was found silent by the sweep and its close was handled: the
\* round is active with its start timestamp.
C26_Witness ==
    /\ lastOp.op = "closeTerminated"
    /\ isActive
    /\ hashes # <<>>
    /\ startTime = 0
    /\ now > startTime
    /\ endTimers = 1

\* C27: in an active round a tap appends one submission at the end of the
\* array: the identity of the connection, the name the roster holds for it at
\* that moment, the digest, the server's timestamp and the tapCount of the
\* message; it writes one newHash with that identity and digest and with the
\* number of leading zeros of the digest.  While the round stays active the
\* array of the state before is a prefix of the array after every step: a
\* join, tap, close, sweep or pong changes no submission that is there.
C27_AppendOnly ==
    [][ /\ (lastOp'.op = "tap" /\ isActive) =>
              LET id == clients[lastOp'.ws].playerId
                  e  == hashes'[Len(hashes')] IN
              /\ Len(hashes') = Len(hashes) + 1
              /\ e.playerId = id
              /\ e.playerName = MapGet(players, id)
              /\ e.timestamp = now
              /\ e.tapCount = lastMsg'.tapCount
              /\ Len(sent') = 1
              /\ sent'[1].msg.type = "newHash"
              /\ sent'[1].msg.playerId = id
              /\ sent'[1].msg.hash = e.hash
              /\ sent'[1].msg.leadingZeros = ZeroPrefixLen(e.hash)
              /\ sent'[1].msg.leadingZeros = countLeadingZeros(e.hash)
        /\ (isActive /\ isActive') =>
              /\ Len(hashes') >= Len(hashes)
              /\ SubSeq(hashes', 1, Len(hashes)) = hashes
        /\ (isActive /\ lastOp'.op \in {"join", "close", "closeTerminated", "sweep", "pong"}) =>
              hashes' = hashes ]_vars

\* C27 witness: c1 tapped as Alice, joined again as Bob and tapped with
\* another tapCount: the first submission keeps the name Alice, the second one
\* is the last element and carries the name Bob.
C27_Witness ==
    /\ lastOp = Op("tap", "c1")
    /\ isActive
    /\ Len(hashes) = 2
    /\ hashes[1].playerId = hashes[2].playerId
    /\ hashes[1].playerName = "Alice"
    /\ hashes[2].playerName = "Bob"
    /\ hashes[1].tapCount # hashes[2].tapCount
    /\ hashes[2].tapCount = lastMsg.tapCount
    /\ Len(sent) = 1
    /\ sent[1].msg.type = "newHash"
    /\ sent[1].msg.hash = hashes[2].hash

\* C28: the isActive test is the only condition of a tap.  In an active round
\* the tap of a connection whose identity is not in the roster is appended with
\* the name undefined and broadcast as newHash to the open connections; the
\* winner of gameEnd is the first submission with the most leading zeros
\* whether or not it carries a name.
C28_GateOnlyValidation ==
    [][ /\ \A ws \in Conns :
              (/\ lastOp' = Op("tap", ws)
               /\ isActive
               /\ clients[ws].playerId \notin DOMAIN players) =>
                  /\ Len(hashes') = Len(hashes) + 1
                  /\ hashes'[Len(hashes')].playerId = clients[ws].playerId
                  /\ hashes'[Len(hashes')].playerName = Undefined
                  /\ Len(sent') = 1
                  /\ sent'[1].msg.type = "newHash"
                  /\ sent'[1].msg.playerId = clients[ws].playerId
                  /\ sent'[1].msg.playerName = Undefined
                  /\ sent'[1].to = OpenClients
        /\ (lastOp'.op = "endGame" /\ hashes # <<>>) =>
              /\ sent'[1].msg.winner # NoWinner
              /\ sent'[1].msg.winner.hash =
                     sent'[1].msg.allHashes[FirstMaxIndex(sent'[1].msg.allHashes)].hash
              /\ sent'[1].msg.winner.playerId =
                     sent'[1].msg.allHashes[FirstMaxIndex(sent'[1].msg.allHashes)].playerId ]_vars

\* C28 witness: a round ended whose only submission came from a connection
\* that was not in the roster: it carries no name and it is the winner.
C28_Witness ==
    /\ GameEndSent
    /\ Len(sent[1].msg.allHashes) = 1
    /\ sent[1].msg.allHashes[1].playerName = Undefined
    /\ sent[1].msg.winner # NoWinner
    /\ sent[1].msg.winner.playerId = sent[1].msg.allHashes[1].playerId
    /\ sent[1].msg.winner.playerId \in ConnectedIds
    /\ sent[1].msg.winner.playerId \notin DOMAIN players

\* C29: two runs that process the same joins and taps at the same timestamps
\* and differ in the tapCount values only end the round with the winner at the
\* same position and with the same number of leading zeros.
C29_TapCountNoInfluence ==
    lastOp.op = "endGame" =>
        /\ findWinner(hashes).winner = findWinner(twin).winner
        /\ findWinner(hashes).maxZeros = findWinner(twin).maxZeros

\* C30: a sweep terminates every registered connection whose isAlive mark is
\* false and clears the mark of the others, leaving them open; a pong sets the
\* mark.  A connection is terminated in a sweep only, and only when no pong of
\* it was handled since the sweep before: one that answers between the sweeps
\* stays open, one that does not is terminated by the second sweep after its
\* last pong or its connect, so no open connection has gone through two.
C30_SweepProtocol ==
    [][ /\ lastOp'.op = "sweep" =>
              \A c \in Conns :
                  clients[c].readyState # "NONE" =>
                      IF link[c].isAlive
                      THEN clients'[c] = clients[c] /\ ~link'[c].isAlive
                      ELSE clients'[c].readyState = "CLOSING"
        /\ \A c \in Conns : lastOp' = Op("pong", c) => link'[c].isAlive
        /\ \A c \in Conns :
              (clients[c].readyState = "OPEN" /\ clients'[c].readyState = "CLOSING") =>
                  /\ lastOp'.op = "sweep"
                  /\ misses[c] = 1
                  /\ misses'[c] = 2
        /\ \A c \in Conns :
              (lastOp'.op = "sweep" /\ clients[c].readyState = "OPEN" /\ misses[c] = 0) =>
                  clients'[c].readyState = "OPEN"
        /\ \A c \in Conns : clients'[c].readyState = "OPEN" => misses'[c] <= 1 ]_vars

\* C30 witness: c2 has just answered a ping; c1, which went through two sweeps
\* without a pong, is terminated.
C30_Witness ==
    /\ lastOp = Op("pong", "c2")
    /\ link["c2"].isAlive
    /\ misses["c2"] = 0
    /\ clients["c1"].readyState = "CLOSING"
    /\ misses["c1"] = 2

\* the time left of the running round at the server's clock, 0 once it is over
TimeLeft == IF startTime + duration > now THEN startTime + duration - now ELSE 0

\* C31: the reply to GET /health carries the active flag, the size of the
\* roster and a time remaining that is 0 while no round is active and
\* max(0, startTime + duration - now) while one is, a value from 0 to duration;
\* the query changes no round state, no connection and no timer.
C31_HealthQuery ==
    [][ lastOp'.op = "health" =>
          /\ health'.active = isActive
          /\ health'.players = Cardinality(DOMAIN players)
          /\ health'.timeRemaining = (IF isActive THEN TimeLeft ELSE 0)
          /\ health'.timeRemaining >= 0
          /\ health'.timeRemaining <= duration
          /\ UNCHANGED << gameVars, clients, link, endTimers, startTimers >> ]_vars

\* C31 as amended: the same, the time remaining being at most duration when the
\* clock has not been set back behind the start of the round.
C31_HealthQueryAmended ==
    [][ lastOp'.op = "health" =>
          /\ health'.active = isActive
          /\ health'.players = Cardinality(DOMAIN players)
          /\ health'.timeRemaining = (IF isActive THEN TimeLeft ELSE 0)
          /\ health'.timeRemaining >= 0
          /\ now >= startTime => health'.timeRemaining <= duration
          /\ UNCHANGED << gameVars, clients, link, endTimers, startTimers >> ]_vars

\* C31 witness: the probe was answered in an active round with one player
\* after the clock had passed the end of the round: the time remaining is 0.
C31_Witness ==
    /\ lastOp.op = "health"
    /\ isActive
    /\ health.active
    /\ health.players = 1
    /\ now > startTime + duration
    /\ health.timeRemaining = 0

\* C32 - Under a clock that never goes backwards the timestamps of a round's
\* submissions are non-decreasing in insertion order and none is smaller than
\* the round's start timestamp, so the sort of endGame changes nothing:
\* gameEnd.allHashes is the sequence in insertion order.
C32_MonotoneOrder ==
    /\ \A i \in 1..Len(accepted) : accepted[i].timestamp >= startTime
    /\ \A i, j \in 1..Len(accepted) : i < j => accepted[i].timestamp <= accepted[j].timestamp
    /\ isActive => hashes = accepted
    /\ lastOp.op = "endGame" =>
          /\ GameEndSent
          /\ sent[1].msg.allHashes = accepted
          /\ hashes = accepted

\* C32 witness: a round ended with three submissions, two
\* different ones at the same timestamp and a later one.
C32_Witness ==
    /\ GameEndSent
    /\ Len(accepted) = 3
    /\ accepted[1].timestamp = accepted[2].timestamp
    /\ accepted[1] # accepted[2]
    /\ accepted[2].timestamp < accepted[3].timestamp
    /\ sent[1].msg.allHashes = accepted

\* C33 - A round that ends with at least one submission has a winner, also
\* when no submitted digest starts with a zero (the winner is then the first
\* submission in sorted order, with leadingZeros 0); the winner is absent
\* exactly when there was no submission.
C33_AlwaysAWinner ==
    lastOp.op = "endGame" =>
        /\ GameEndSent
        /\ (sent[1].msg.winner = NoWinner) <=> (accepted = <<>>)
        /\ (/\ accepted # <<>>
            /\ \A i \in 1..Len(accepted) : ZeroPrefixLen(accepted[i].hash) = 0)
              => /\ sent[1].msg.winner.leadingZeros = 0
                 /\ sent[1].msg.winner.hash = sent[1].msg.allHashes[1].hash
                 /\ sent[1].msg.winner.playerId = sent[1].msg.allHashes[1].playerId

\* C33 witness: a round ended with two submissions, none of them with a
\* leading zero, and gameEnd names a winner.
C33_Witness ==
    /\ GameEndSent
    /\ Len(accepted) = 2
    /\ \A i \in 1..2 : ZeroPrefixLen(accepted[i].hash) = 0
    /\ accepted[1].hash # accepted[2].hash
    /\ sent[1].msg.winner # NoWinner
    /\ sent[1].msg.winner.hash = accepted[1].hash

\* C34 - Live feed and final result agree: when a round with submissions ends,
\* winner.leadingZeros is the zero prefix of winner.hash and the largest
\* leadingZeros of the newHash events of the round, and winner.hash is the hash
\* of one of those events.
C34_FeedAgrees ==
    (lastOp.op = "endGame" /\ accepted # <<>>) =>
        LET winner == sent[1].msg.winner IN
        /\ winner # NoWinner
        /\ Len(feed) = Len(accepted)
        /\ winner.leadingZeros = ZeroPrefixLen(winner.hash)
        /\ \A i \in 1..Len(feed) : feed[i].leadingZeros <= winner.leadingZeros
        /\ \E i \in 1..Len(feed) : /\ feed[i].hash = winner.hash
                                     /\ feed[i].leadingZeros = winner.leadingZeros

\* C34 witness: the feed of the ended round showed two leading zeros first and
\* none afterwards; the winner carries the two.
C34_Witness ==
    /\ GameEndSent
    /\ Len(feed) = 3
    /\ feed[1].leadingZeros = 2
    /\ feed[2].leadingZeros = 0
    /\ feed[3].leadingZeros = 0
    /\ sent[1].msg.winner.leadingZeros = 2
    /\ sent[1].msg.winner.hash = feed[1].hash

\* the connections wss.clients holds
Registered == {c \in Conns : clients[c].readyState # "NONE"}

\* C35 - Roster soundness: every identity in the roster is the identity of a
\* connection whose 'close' has not run yet, so the roster size and every
\* playerCount written in playerJoined or playerLeft is at most the number of
\* registered connections.
C35_RosterSound ==
    /\ \A id \in DOMAIN players : \E c \in Registered : clients[c].playerId = id
    /\ MapSize(players) <= Cardinality(Registered)
    /\ \A i \in DOMAIN sent :
          sent[i].msg.type \in {"playerJoined", "playerLeft"}
             => sent[i].msg.playerCount <= Cardinality(Registered)

\* C35 witness: two connections with different identities joined, one of them
\* was terminated by the heartbeat and its 'close' ran: playerLeft carries
\* playerCount 1, one connection is registered, one identity is in the roster.
C35_Witness ==
    /\ lastOp.op = "closeTerminated"
    /\ Len(sent) = 1
    /\ sent[1].msg.type = "playerLeft"
    /\ sent[1].msg.playerCount = 1
    /\ sent[1].to # {}
    /\ Cardinality(Registered) = 1
    /\ MapSize(players) = 1

\* C36 - The roster reset drops connected players silently: startNewGame
\* empties the roster, closes no connection and writes gameStart only (no
\* playerLeft); an identity enters the roster only in the join handler of its
\* connection; the page sends join only from the onopen handler joinGame
\* installed, once per joinGame, and neither on gameStart or any other message
\* nor when the reconnect timer has opened a new connection.
C36_SilentReset ==
    [][ /\ lastOp'.op = "startNewGame" =>
              /\ players' = EmptyMap
              /\ clients' = clients
              /\ joinedSince' = joinedSince
              /\ TypesSent(sent') = {"gameStart"}
        /\ \A id \in DOMAIN players' \ DOMAIN players :
              /\ lastOp'.op = "join"
              /\ clients[lastOp'.ws].playerId = id
        /\ lastOp'.op = "join" =>
              /\ page[lastOp'.ws].stage = "joinOnOpen"
              /\ page'[lastOp'.ws].joins = page[lastOp'.ws].joins + 1
        /\ lastOp'.op # "join" => \A c \in Conns : page'[c].joins = page[c].joins
        /\ \A c \in Conns : page'[c].joins <= 1
        /\ lastOp'.op \in {"onmessage", "onopen", "connection"} =>
              /\ players' = players
              /\ sent' = <<>>
      ]_vars

\* C36 witness: the page joined once, stayed connected over the end of the
\* round and the start of the next and has handled gameStart; its identity is
\* not in the roster, and its tap of the new round is stored without a name.
C36_Witness ==
    /\ clients[Client].readyState = "OPEN"
    /\ Client \in joinedSince
    /\ page[Client].joins = 1
    /\ page[Client].stage = "open"
    /\ inbox[Client] = <<>>
    /\ isActive
    /\ startTime = 1
    /\ page[Client].gameActive
    /\ clients[Client].playerId \notin DOMAIN players
    /\ Len(hashes) = 1
    /\ hashes[1].playerName = Undefined

\* the page of connection c sent join on this connection, the connection is
\* open and no message waits at the page
Settled(c) ==
    /\ c \in joinedSince
    /\ clients[c].readyState = "OPEN"
    /\ inbox[c] = <<>>

\* C38 - Client mirror of the round phase: for a page that joined and stays
\* connected, once it has handled every message delivered to it, gameActive
\* equals gameState.isActive and the gameEndTime it has computed (always one
\* while the round is active) equals gameState.startTime + duration; a tap
\* message is sent only by a page whose gameActive is true.
C38_ClientMirror ==
    /\ \A c \in Conns :
          Settled(c) =>
             /\ page[c].gameActive = isActive
             /\ isActive => page[c].gameEndTime = startTime + duration
             /\ page[c].gameEndTime # NullTime => page[c].gameEndTime = startTime + duration
    /\ lastOp.op = "tap" => page[lastOp.ws].gameActive

\* C38 witness: the page saw the second round start at time 1, tapped in it
\* and has handled its gameEnd.
C38_Witness ==
    /\ Settled(Client)
    /\ ~isActive
    /\ startTime = 1
    /\ ~page[Client].gameActive
    /\ page[Client].gameEndTime = 1 + duration
    /\ page[Client].tapCount = 1
    /\ Len(hashes) = 1

\* C37 - Shutdown is idempotent: once serverState.isShuttingDown is set, a
\* further SIGTERM or SIGINT returns at the test of the flag: it writes no
\* message, closes nothing, cancels and sets no timer and leaves the flag set.
C37_ShutdownIdempotent ==
    [][ (isShuttingDown /\ lastOp'.op \in {"signal", "signalIgnored"}) =>
           /\ lastOp'.op = "signalIgnored"
           /\ sent' = <<>>
           /\ isShuttingDown'
           /\ UNCHANGED << gameVars, clients, endTimers, startTimers, listening, link >>
      ]_vars

\* C37 witness: a second signal was ignored while a connection is open and the
\* endGame timer is pending.
C37_Witness ==
    /\ lastOp.op = "signalIgnored"
    /\ isShuttingDown
    /\ OpenClients # {}
    /\ isActive
    /\ endTimers > 0

\* C39 - A decodable message whose type is neither join nor tap changes no
\* roster, submission or round state and no connection, and nothing is written
\* to any connection: no reply and no broadcast.
C39_OtherTypeIgnored ==
    [][ lastOp'.op = "other" =>
           /\ UNCHANGED << isActive, players, hashes, startTime >>
           /\ UNCHANGED << clients, endTimers, startTimers >>
           /\ UNCHANGED histVars
           /\ sent' = <<>>
      ]_vars

\* C39 witness: a joined player with a submission in the active round sent
\* such a message.
C39_Witness ==
    /\ lastOp.op = "other"
    /\ lastMsg.type = "other"
    /\ isActive
    /\ clients[lastOp.ws].playerId \in DOMAIN players
    /\ Len(hashes) = 1
    /\ hashes[1].playerId = clients[lastOp.ws].playerId
    /\ sent = <<>>

====
